---- MODULE Spec2Model ----
(***************************************************************************)
(* AetherChain: the chain state machine (blockchain.Blockchain), the       *)
(* proof-of-work engine, the consensus loop's mine-and-commit step, the    *)
(* peer block/transaction handlers, and the storage layer's snapshot save, *)
(* load and rollback.                                                      *)
(*                                                                         *)
(* Digests.  SHA-256 is modelled as a collision-free function whose value  *)
(* is the pair <<z, preimage>>: z is the number of leading zero symbols of *)
(* the hex digest (a fixed pseudo-random function of the preimage) and the *)
(* preimage stands for the remaining symbols.  A hash string that is not a *)
(* digest of anything the model hashes ("", "0", a peer's arbitrary text)  *)
(* is the same kind of pair.  float64 balances are integers: every amount  *)
(* of the model is an integer far below 2^53.                              *)
(***************************************************************************)
EXTENDS Integers, Sequences, FiniteSets, TLC

\* ------------------------------------------------------------------ bounds
MaxChain == 3          \* cap on len(bc.Chain)
MaxPool == 2           \* cap on len(bc.TransactionPool)
MaxBlockTx == 2        \* transactions in a block supplied by a peer
MaxTransactions == 2   \* getTransactionsForBlock's limit (100 in the source)
MaxNonce == 3          \* the attempt ceiling (100000000 in the source)
MaxTime == 1           \* clock readings are 0..MaxTime
MaxResubmit == 1       \* times a caller passes a rejected block again
Difficulty == 1        \* bc.Difficulty, the configured difficulty
MaxDrawnPool == 3      \* entries of a pool drawn as CreateNewBlock's input

\* --------------------------------------------------------- program constants
GenesisAllocation == 1000000
BaseBlockReward == 50

Times == 0..MaxTime
Addresses == {"0", "genesis_address", "genesis_miner", "A", "M"}
Miners == {"M"}

\* the new_tx messages a node sends on in one behaviour
MaxRebroadcast == 3

\* ------------------------------------------------------------ hash strings
EmptyHash == <<0, <<>>>>            \* ""
ZeroHash == <<1, <<"0">>>>          \* "0", the genesis block's PrevHash
JunkHash == <<0, <<"junk">>>>       \* a peer's text that is no digest

\* a null pointer where the message names no object
Nil == [nil |-> TRUE]

\* ------------------------------------------------------------ transactions
NoSignature == <<>>                 \* Signature == ""

\* sha256(tx.Hash + key), hex encoded
SignatureOf(hash, key) == <<hash, key>>

VerifySignature(tx) ==
    IF tx.Signature = NoSignature
    THEN FALSE
    ELSE tx.Signature = SignatureOf(tx.Hash, tx.PublicKey)

\* IsValid without the sender/recipient comparison
IsValidSelfTransfer(tx) ==
    IF tx.Amount <= 0 THEN FALSE
    ELSE IF ~VerifySignature(tx) THEN FALSE
    ELSE TRUE

IsValid(tx) ==
    IF tx.Amount <= 0 THEN FALSE
    ELSE IF tx.From = tx.To THEN FALSE
    ELSE IF ~VerifySignature(tx) THEN FALSE
    ELSE TRUE

GenesisTransaction ==
    [Hash |-> "genesis_transaction", From |-> "0", To |-> "genesis_address",
     Amount |-> GenesisAllocation, Fee |-> 0,
     Signature |-> NoSignature, PublicKey |-> ""]

\* The transactions clients and peers submit: Hash is the text the sender put
\* in the field (no handler recomputes it).  <<hash, from, to, amount, fee,
\* signature>>: four that pass IsValid and one for each way of failing it.
SignatureFor(kind, hash) ==
    CASE kind = "signed" -> SignatureOf(hash, "k")
      [] kind = "forged" -> SignatureOf(hash, "x")
      [] OTHER -> NoSignature

Tx(shape) ==
    [Hash |-> shape[1], From |-> shape[2], To |-> shape[3], Amount |-> shape[4],
     Fee |-> shape[5], Signature |-> SignatureFor(shape[6], shape[1]),
     PublicKey |-> "k"]

ValidShapes ==
    {<<"t1", "genesis_address", "A", 100, 1, "signed">>,
     <<"t1", "genesis_address", "A", 600000, 0, "signed">>,
     <<"t2", "genesis_address", "A", 600000, 0, "signed">>,
     <<"t2", "A", "genesis_address", 100, 1, "signed">>}
InvalidShapes ==
    {<<"t1", "genesis_address", "A", 0, 0, "signed">>,
     <<"t1", "genesis_address", "genesis_address", 100, 1, "signed">>,
     <<"t1", "genesis_address", "A", 100, 1, "forged">>,
     <<"t1", "genesis_address", "A", 100, 1, "unsigned">>}
TxUniverse == {Tx(shape) : shape \in ValidShapes \cup InvalidShapes}

\* ------------------------------------------------------------------ blocks
CalculateMerkleRoot(txs) ==
    IF Len(txs) = 0 THEN <<>>
    ELSE [i \in 1..Len(txs) |-> txs[i].Hash]

JunkRoot == <<"junk">>

NewBlock(index, txs, prevHash, difficulty, now) ==
    [Version |-> 1, Index |-> index, Timestamp |-> now, PrevHash |-> prevHash,
     MerkleRoot |-> CalculateMerkleRoot(txs), Transactions |-> txs,
     Nonce |-> 0, Difficulty |-> difficulty, Hash |-> EmptyHash,
     Miner |-> "", BlockReward |-> BaseBlockReward]

\* the fields CalculateHash serialises
Header(b) ==
    <<b.Version, b.Index, b.Timestamp, b.PrevHash, b.MerkleRoot, b.Nonce,
      b.Difficulty>>

\* leading zero symbols of the digest of Header(b)
LeadingZeros(b) ==
    LET mix == (b.Version + b.Index + b.Timestamp + b.PrevHash[1]
                + Len(b.MerkleRoot) + b.Nonce + b.Difficulty) % 5
    IN  CASE mix = 0 -> 2
          [] mix = 1 -> 1
          [] OTHER -> 0

CalculateHash(b) == <<LeadingZeros(b), Header(b)>>

\* ----------------------------------------------------------- proof of work
IsValidHash(hash, difficulty) == hash[1] >= difficulty

Validate(b, difficulty) == IsValidHash(CalculateHash(b), difficulty)

RECURSIVE MineFrom(_, _, _)
MineFrom(b, difficulty, nonce) ==
    IF nonce >= MaxNonce
    THEN [ok |-> FALSE, nonce |-> 0, hash |-> EmptyHash]
    ELSE LET hash == CalculateHash([b EXCEPT !.Nonce = nonce])
         IN  IF IsValidHash(hash, difficulty)
             THEN [ok |-> TRUE, nonce |-> nonce, hash |-> hash]
             ELSE MineFrom(b, difficulty, nonce + 1)

\* Mine starting its search at nonce 1
MineSkippingZero(b, difficulty) == MineFrom(b, difficulty, 1)

Mine(b, difficulty) == MineFrom(b, difficulty, 0)

\* ------------------------------------------------------------------- state
VARIABLES
    Chain,             \* bc.Chain
    TransactionPool,   \* bc.TransactionPool
    Accounts,          \* bc.Accounts: a map, DOMAIN Accounts are its keys
    candidate,         \* mineBlock's block between CreateNewBlock and AddBlock
    disk,              \* the data directory's snapshot files
    op,                \* the last call and what it returned
    removed,           \* the transactions that have left this ledger's pool
    origin,            \* the peer whose message the running handler received
    sent,              \* what the running call wrote to peer connections
    remote,            \* the ledger of another node of the network, and the
                       \* height of the block in its message under way
    mutex,             \* bc.mutex: the goroutine holding it for writing, and
                       \* the goroutines holding it for reading
    pc,                \* where each goroutine is in its code
    isMining,          \* c.isMining
    cmutex,            \* c.mutex: the goroutine holding it
    node               \* the network Node: isRunning, the peer registry,
                       \* where each connection's goroutine is, and the
                       \* new_tx messages on the connection to the other node

\* the goroutines and the two locks
threads == <<mutex, pc, isMining, cmutex>>

\* the state that the operations on this node's ledger leave alone
background == <<remote, threads, node>>

vars == <<Chain, TransactionPool, Accounts, candidate, disk, op, removed,
          origin, sent, background>>

\* the state that the network Node's own methods leave alone
ledgerAndThreads == <<Chain, TransactionPool, Accounts, candidate, disk, op,
                      removed, origin, sent, remote, threads>>

\* m[k] of a Go map: the zero value for a missing key
Balance(accounts, a) == IF a \in DOMAIN accounts THEN accounts[a] ELSE 0

\* m[k] += d
Credit(accounts, a, d) ==
    [x \in DOMAIN accounts \cup {a} |->
        IF x = a THEN Balance(accounts, a) + d ELSE accounts[x]]

\* processTransaction debiting the amount only
processTransactionFeeKept(accounts, tx) ==
    Credit(Credit(accounts, tx.From, 0 - tx.Amount), tx.To, tx.Amount)

processTransaction(accounts, tx) ==
    Credit(Credit(accounts, tx.From, 0 - (tx.Amount + tx.Fee)), tx.To, tx.Amount)

RECURSIVE processTransactions(_, _)
processTransactions(accounts, txs) ==
    IF Len(txs) = 0 THEN accounts
    ELSE processTransactions(processTransaction(accounts, Head(txs)), Tail(txs))

removeProcessedTransactions(pool, processed) ==
    LET processedMap == {processed[i].Hash : i \in 1..Len(processed)}
    IN  SelectSeq(pool, LAMBDA tx : tx.Hash \notin processedMap)

\* getTransactionsForBlock taking the newest entries of the pool
getTransactionsForBlockNewest(pool) ==
    IF Len(pool) < MaxTransactions THEN pool
    ELSE SubSeq(pool, Len(pool) - MaxTransactions + 1, Len(pool))

getTransactionsForBlock(pool) ==
    IF Len(pool) < MaxTransactions THEN pool
    ELSE SubSeq(pool, 1, MaxTransactions)

\* IsValidBlock without the proof-of-work validation
IsValidBlockNoProofOfWork(chain, b, difficulty) ==
    IF b.Index # Len(chain) THEN FALSE
    ELSE IF b.PrevHash # chain[Len(chain)].Hash THEN FALSE
    ELSE \A i \in 1..Len(b.Transactions) : IsValid(b.Transactions[i])

IsValidBlock(chain, b, difficulty) ==
    IF b = Nil THEN FALSE
    ELSE IF b.Index # Len(chain) THEN FALSE
    ELSE IF b.PrevHash # chain[Len(chain)].Hash THEN FALSE
    ELSE IF ~Validate(b, difficulty) THEN FALSE
    ELSE \A i \in 1..Len(b.Transactions) : IsValid(b.Transactions[i])

IsChainValid(chain, difficulty) ==
    \A i \in 2..Len(chain) :
        /\ chain[i].Hash = CalculateHash(chain[i])
        /\ chain[i].PrevHash = chain[i - 1].Hash
        /\ Validate(chain[i], difficulty)

GenesisBlock(now) ==
    LET b == NewBlock(0, <<GenesisTransaction>>, ZeroHash, Difficulty, now)
    IN  [b EXCEPT !.Hash = CalculateHash(b), !.Miner = "genesis_miner"]

GenesisAccounts == [a \in {"genesis_address"} |-> GenesisAllocation]

NoSnapshot ==
    [exists |-> FALSE, height |-> 0, blocks |-> <<>>, pool |-> <<>>,
     accounts |-> GenesisAccounts]

\* AddBlock storing the block over the tip instead of after it
AddBlockOverTip(bc, b) ==
    IF ~IsValidBlock(bc.chain, b, Difficulty)
    THEN [chain |-> bc.chain, pool |-> bc.pool, accounts |-> bc.accounts,
          err |-> TRUE]
    ELSE [chain |-> Append(SubSeq(bc.chain, 1, Len(bc.chain) - 1), b),
          pool |-> removeProcessedTransactions(bc.pool, b.Transactions),
          accounts |-> Credit(processTransactions(bc.accounts, b.Transactions),
                              b.Miner, b.BlockReward),
          err |-> FALSE]

\* AddBlock on the ledger bc = [chain, pool, accounts]: the ledger after the
\* call, and whether the call returned an error
AddBlock(bc, b) ==
    IF ~IsValidBlock(bc.chain, b, Difficulty)
    THEN [chain |-> bc.chain, pool |-> bc.pool, accounts |-> bc.accounts,
          err |-> TRUE]
    ELSE [chain |-> Append(bc.chain, b),
          pool |-> removeProcessedTransactions(bc.pool, b.Transactions),
          accounts |-> Credit(processTransactions(bc.accounts, b.Transactions),
                              b.Miner, b.BlockReward),
          err |-> FALSE]

\* CreateNewBlock returning the block with Mine's hash and without its nonce
CreateNewBlockNonceLost(chain, pool, miner, now) ==
    LET lastBlock == chain[Len(chain)]
        transactions == getTransactionsForBlock(pool)
        newBlock == [NewBlock(Len(chain), transactions, lastBlock.Hash,
                              Difficulty, now) EXCEPT !.Miner = miner]
        mined == Mine(newBlock, Difficulty)
    IN  [err |-> ~mined.ok,
         block |-> [newBlock EXCEPT !.Hash = mined.hash]]

\* CreateNewBlock's result: the mined block, or the error of Mine
CreateNewBlock(chain, pool, miner, now) ==
    LET lastBlock == chain[Len(chain)]
        transactions == getTransactionsForBlock(pool)
        newBlock == [NewBlock(Len(chain), transactions, lastBlock.Hash,
                              Difficulty, now) EXCEPT !.Miner = miner]
        mined == Mine(newBlock, Difficulty)
    IN  [err |-> ~mined.ok,
         block |-> [newBlock EXCEPT !.Nonce = mined.nonce, !.Hash = mined.hash]]

\* what a call leaves in op: its name, whether it succeeded, its argument,
\* and how often the same argument was passed again
Outcome(name, ok, arg, tries) ==
    [name |-> name, ok |-> ok, arg |-> arg, tries |-> tries]

Idle == Outcome("idle", TRUE, <<>>, 0)

Ledger == [chain |-> Chain, pool |-> TransactionPool, accounts |-> Accounts]

\* n.peers: the connected peers
Peers == {"p1", "p2"}

\* the goroutines: those that run miningLoop, and those that serve API
\* requests, peer connections and the state manager
Loops == {"loop1", "loop2"}
Callers == {"c1", "c2"}
NoPeer == ""

\* the connections this node accepts or dials, each served by one goroutine,
\* and the identifiers generatePeerID can give them: it formats the clock, so
\* two connections made in the same nanosecond get the same identifier
Conns == {"k1", "k2", "k3"}
PeerIDs == {"peer_1", "peer_2"}

\* n.peers[peer.ID] = peer: the registry is a map, at most one entry per ID
addPeer(peers, id, k) == {e \in peers : e[1] # id} \cup {<<id, k>>}

\* delete(n.peers, peerID)
removePeerNothing(peers, id) == peers

removePeer(peers, id) == {e \in peers : e[1] # id}

\* the node after Start: running, listening, no peer yet
StartedNode ==
    [isRunning |-> TRUE, listening |-> TRUE, stop |-> "none", peers |-> {},
     closed |-> {}, pc |-> [k \in Conns |-> "none"],
     id |-> [k \in Conns |-> "peer_1"],
     flood |-> [injected |-> FALSE, here |-> 0, there |-> 0,
                sentHere |-> 0, sentThere |-> 0]]

\* the entries of pool that pool2 no longer holds
Left(pool, pool2) ==
    {pool[i] : i \in 1..Len(pool)} \ {pool2[i] : i \in 1..Len(pool2)}

\* json.Marshal and json.Unmarshal of a Transaction and of a Block: one key
\* per tagged field
EncodeTransaction(tx) ==
    [hash |-> tx.Hash, from |-> tx.From, to |-> tx.To, amount |-> tx.Amount,
     fee |-> tx.Fee, signature |-> tx.Signature, public_key |-> tx.PublicKey]

DecodeTransaction(m) ==
    [Hash |-> m.hash, From |-> m.from, To |-> m.to, Amount |-> m.amount,
     Fee |-> m.fee, Signature |-> m.signature, PublicKey |-> m.public_key]

\* EncodeBlock writing no nonce key
EncodeBlockWithoutNonce(b) ==
    [version |-> b.Version, index |-> b.Index, timestamp |-> b.Timestamp,
     prev_hash |-> b.PrevHash, merkle_root |-> b.MerkleRoot,
     transactions |-> [i \in 1..Len(b.Transactions) |->
                          EncodeTransaction(b.Transactions[i])],
     nonce |-> 0, difficulty |-> b.Difficulty, hash |-> b.Hash,
     miner |-> b.Miner, block_reward |-> b.BlockReward]

EncodeBlock(b) ==
    [version |-> b.Version, index |-> b.Index, timestamp |-> b.Timestamp,
     prev_hash |-> b.PrevHash, merkle_root |-> b.MerkleRoot,
     transactions |-> [i \in 1..Len(b.Transactions) |->
                          EncodeTransaction(b.Transactions[i])],
     nonce |-> b.Nonce, difficulty |-> b.Difficulty, hash |-> b.Hash,
     miner |-> b.Miner, block_reward |-> b.BlockReward]

DecodeBlock(m) ==
    [Version |-> m.version, Index |-> m.index, Timestamp |-> m.timestamp,
     PrevHash |-> m.prev_hash, MerkleRoot |-> m.merkle_root,
     Transactions |-> [i \in 1..Len(m.transactions) |->
                          DecodeTransaction(m.transactions[i])],
     Nonce |-> m.nonce, Difficulty |-> m.difficulty, Hash |-> m.hash,
     Miner |-> m.miner, BlockReward |-> m.block_reward]

\* the raw message of type new_block or new_tx
NewBlockMessage(b) == [Type |-> "new_block", Data |-> EncodeBlock(b)]
NewTxMessage(tx) == [Type |-> "new_tx", Data |-> EncodeTransaction(tx)]

\* Node.BroadcastMessage: one write per connected peer
BroadcastMessage(message) == {[to |-> p, message |-> message] : p \in Peers}

Init ==
    /\ \E now \in Times : Chain = <<GenesisBlock(now)>>
    /\ TransactionPool = <<>>
    /\ Accounts = GenesisAccounts
    /\ candidate = <<>>
    /\ disk = NoSnapshot
    /\ op = Idle
    /\ removed = {}
    /\ origin = NoPeer
    /\ sent = {}
    /\ remote = [chain |-> Chain, pool |-> <<>>, accounts |-> GenesisAccounts,
                 wire |-> <<>>]
    /\ mutex = [writer |-> "none", readers |-> {}]
    /\ pc = [t \in Loops \cup Callers |-> IF t \in Loops THEN "none" ELSE "idle"]
    /\ isMining = FALSE
    /\ cmutex = "none"
    /\ node = StartedNode

\* --------------------------------------------------------------- operations

\* the caller takes the result; the next call can start
Return ==
    /\ op.name # "idle"
    /\ op.name # "AlterPrevHash"
    /\ op.name # "panic"
    /\ op' = Idle
    /\ origin' = NoPeer
    /\ sent' = {}
    /\ UNCHANGED <<Chain, TransactionPool, Accounts, candidate, disk, removed>>
    /\ UNCHANGED background

\* bc.AddTransaction(tx), as createTransaction and StateManager.AddTransaction
\* call it
AddTransaction(tx) ==
    /\ op = Idle
    /\ Len(TransactionPool) < MaxPool
    /\ IF ~IsValid(tx)
       THEN /\ UNCHANGED TransactionPool
            /\ op' = Outcome("AddTransaction", FALSE, <<tx>>, 0)
       ELSE IF Balance(Accounts, tx.From) < tx.Amount + tx.Fee
       THEN /\ UNCHANGED TransactionPool
            /\ op' = Outcome("AddTransaction", FALSE, <<tx>>, 0)
       ELSE /\ TransactionPool' = Append(TransactionPool, tx)
            /\ op' = Outcome("AddTransaction", TRUE, <<tx>>, 0)
    /\ UNCHANGED <<Chain, Accounts, candidate, disk, removed, origin, sent>>
    /\ UNCHANGED background

\* the ledger variables take AddBlock's result, op its outcome
CallAddBlock(b, tries) ==
    LET r == AddBlock(Ledger, b)
    IN  /\ Chain' = r.chain
        /\ TransactionPool' = r.pool
        /\ Accounts' = r.accounts
        /\ op' = Outcome("AddBlock", ~r.err, <<b>>, tries)
        /\ removed' = removed \cup Left(TransactionPool, r.pool)

\* miningLoop's tick and the first half of mineBlock
mineBlockCreate(miner, now) ==
    /\ op = Idle
    /\ candidate = <<>>
    /\ Len(Chain) < MaxChain
    /\ Len(TransactionPool) > 0
    /\ LET r == CreateNewBlock(Chain, TransactionPool, miner, now)
       IN  /\ candidate' = IF r.err THEN <<>> ELSE <<r.block>>
           /\ op' = Outcome("CreateNewBlock", ~r.err, <<>>, 0)
    /\ UNCHANGED <<Chain, TransactionPool, Accounts, disk, removed, origin, sent>>
    /\ UNCHANGED background

\* Consensus.broadcastNewBlock: the body prints a line and writes to no peer
broadcastNewBlock(b) == {}

\* mineBlock taking the candidate's transactions out of the pool when AddBlock
\* has refused the block
mineBlockCommitDropsPool ==
    /\ op = Idle
    /\ candidate # <<>>
    /\ LET r == AddBlock(Ledger, candidate[1])
       IN  /\ Chain' = r.chain
           /\ Accounts' = r.accounts
           /\ TransactionPool' =
                 removeProcessedTransactions(r.pool, candidate[1].Transactions)
           /\ op' = Outcome("AddBlock", ~r.err, <<candidate[1]>>, 0)
           /\ removed' = removed \cup Left(TransactionPool, TransactionPool')
           /\ sent' = {}
    /\ candidate' = <<>>
    /\ UNCHANGED <<disk, origin>>
    /\ UNCHANGED background

\* the second half of mineBlock: AddBlock on the mined block, then
\* broadcastNewBlock if it was added
mineBlockCommit ==
    /\ op = Idle
    /\ candidate # <<>>
    /\ CallAddBlock(candidate[1], 0)
    /\ candidate' = <<>>
    /\ sent' = IF AddBlock(Ledger, candidate[1]).err THEN {}
               ELSE broadcastNewBlock(candidate[1])
    /\ UNCHANGED <<disk, origin>>
    /\ UNCHANGED background

\* bc.AddBlock(b) called with any block (StateManager.AddBlock passes its
\* argument on)
StateManagerAddBlock(b) ==
    /\ op = Idle
    /\ Len(Chain) < MaxChain
    /\ CallAddBlock(b, 0)
    /\ UNCHANGED <<candidate, disk, origin, sent>>
    /\ UNCHANGED background

\* the caller passes the block AddBlock has just rejected once more
Resubmit ==
    /\ op.name = "AddBlock"
    /\ ~op.ok
    /\ op.tries < MaxResubmit
    /\ CallAddBlock(op.arg[1], op.tries + 1)
    /\ UNCHANGED <<candidate, disk, origin, sent>>
    /\ UNCHANGED background

\* message.Data that json.Unmarshal refuses
Undecodable == [undecodable |-> TRUE]

\* a block hash of fewer than 16 characters
ShortHash == <<0, <<"short">>>>

\* hash[:16] can be taken: the text has 16 characters or more (a digest has
\* 64, JunkHash stands for a long text)
HasPrefix16(hash) == hash \notin {EmptyHash, ZeroHash, ShortHash}

\* the same for a transaction's hash, "short" being the text that has not
TxHasPrefix16(hash) == hash \notin {"", "short"}

\* a handler dereferences nil or slices past the end of a string: the
\* goroutine panics, nothing recovers, the process ends
Panic(peer, name) ==
    /\ op' = Outcome("panic", FALSE, <<name>>, 0)
    /\ origin' = peer
    /\ sent' = {}
    /\ UNCHANGED <<Chain, TransactionPool, Accounts, removed>>

\* a handler returns having done nothing
Dropped(peer, name) ==
    /\ op' = Outcome(name, FALSE, <<>>, 0)
    /\ origin' = peer
    /\ sent' = {}
    /\ UNCHANGED <<Chain, TransactionPool, Accounts, removed>>

\* Block.IsValidBlock's loop calls tx.IsValid() on each entry: a nil entry is
\* dereferenced once index, prevHash and proof of work have passed
ReachesNilTransaction(chain, b, difficulty) ==
    /\ b.Index = Len(chain)
    /\ b.PrevHash = chain[Len(chain)].Hash
    /\ Validate(b, difficulty)
    /\ \E i \in 1..Len(b.Transactions) :
          /\ b.Transactions[i] = Nil
          /\ \A j \in 1..(i - 1) : IsValid(b.Transactions[j])

\* newBlock from a peer: the hash prefix is printed, then IsValidBlock, then
\* AddBlock and the broadcast of the message received
handleNewBlock(peer, data) ==
    /\ op = Idle
    /\ Len(Chain) < MaxChain
    /\ IF data = Undecodable
       THEN Dropped(peer, "handleNewBlock")
       ELSE IF data = Nil \/ ~HasPrefix16(data.Hash)
       THEN Panic(peer, "handleNewBlock")
       ELSE IF ReachesNilTransaction(Chain, data, Difficulty)
       THEN Panic(peer, "handleNewBlock")
       ELSE IF IsValidBlock(Chain, data, Difficulty)
       THEN /\ CallAddBlock(data, 0)
            /\ origin' = peer
            /\ sent' = BroadcastMessage(NewBlockMessage(data))
       ELSE Dropped(peer, "handleNewBlock")
    /\ UNCHANGED <<candidate, disk>>
    /\ UNCHANGED background

\* newTx from a peer: the hash prefix is printed, then tx.IsValid(), then
\* AddTransaction, its error dropped, and the broadcast of the message received
handleNewTx(peer, data) ==
    /\ op = Idle
    /\ Len(TransactionPool) < MaxPool
    /\ IF data = Undecodable
       THEN Dropped(peer, "handleNewTx")
       ELSE IF data = Nil \/ ~TxHasPrefix16(data.Hash)
       THEN Panic(peer, "handleNewTx")
       ELSE IF IsValid(data)
       THEN /\ TransactionPool' =
                  IF Balance(Accounts, data.From) < data.Amount + data.Fee
                  THEN TransactionPool
                  ELSE Append(TransactionPool, data)
            /\ op' = Outcome("handleNewTx", TRUE, <<data>>, 0)
            /\ origin' = peer
            /\ sent' = BroadcastMessage(NewTxMessage(data))
            /\ UNCHANGED <<Chain, Accounts, removed>>
       ELSE /\ op' = Outcome("handleNewTx", FALSE, <<data>>, 0)
            /\ origin' = peer
            /\ sent' = {}
            /\ UNCHANGED <<Chain, TransactionPool, Accounts, removed>>
    /\ UNCHANGED <<candidate, disk>>
    /\ UNCHANGED background

\* blocks from a peer: each block that passes IsValidBlock goes to AddBlock.
\* The number of blocks added is left in op.tries.
RECURSIVE handleBlocksFrom(_, _, _)
handleBlocksFrom(bc, blocks, added) ==
    IF Len(blocks) = 0
    THEN [chain |-> bc.chain, pool |-> bc.pool, accounts |-> bc.accounts,
          added |-> added, panic |-> FALSE]
    ELSE IF Head(blocks) # Nil
            /\ ReachesNilTransaction(bc.chain, Head(blocks), Difficulty)
    THEN [chain |-> bc.chain, pool |-> bc.pool, accounts |-> bc.accounts,
          added |-> added, panic |-> TRUE]
    ELSE IF IsValidBlock(bc.chain, Head(blocks), Difficulty)
    THEN handleBlocksFrom(AddBlock(bc, Head(blocks)), Tail(blocks), added + 1)
    ELSE handleBlocksFrom(bc, Tail(blocks), added)

\* the Data of a blocks message that json.Unmarshal refuses
UndecodableBlocks == <<Undecodable>>

handleBlocks(peer, blocks) ==
    /\ op = Idle
    /\ IF blocks = UndecodableBlocks
       THEN Dropped(peer, "handleBlocks")
       ELSE /\ Len(Chain) + Len(blocks) <= MaxChain
            /\ LET r == handleBlocksFrom(Ledger, blocks, 0)
               IN  /\ Chain' = r.chain
                   /\ TransactionPool' = r.pool
                   /\ Accounts' = r.accounts
                   /\ removed' = removed \cup Left(TransactionPool, r.pool)
                   /\ op' = IF r.panic
                            THEN Outcome("panic", FALSE, <<"handleBlocks", blocks>>,
                                         r.added)
                            ELSE Outcome("handleBlocks", TRUE, <<blocks>>, r.added)
            /\ origin' = peer
            /\ sent' = {}
    /\ UNCHANGED <<candidate, disk>>
    /\ UNCHANGED background

\* ------------------------------------------------------------------ storage

\* Database.SaveBlockchain: metadata.json, block_<i>.json, the pool and the
\* accounts (files of blocks above the saved height are never read back)
SaveBlockchain ==
    /\ op = Idle
    /\ disk' = [exists |-> TRUE, height |-> Len(Chain), blocks |-> Chain,
                pool |-> TransactionPool, accounts |-> Accounts]
    /\ op' = Outcome("SaveBlockchain", TRUE, <<>>, 0)
    /\ UNCHANGED <<Chain, TransactionPool, Accounts, candidate, removed,
                   origin, sent>>
    /\ UNCHANGED background

\* json decoding into a map keeps the keys the file does not name
DecodeInto(accounts, file) ==
    [x \in DOMAIN accounts \cup DOMAIN file |->
        IF x \in DOMAIN file THEN file[x] ELSE accounts[x]]

\* the blocks LoadBlockchain appends before it returns: block_0.json up to
\* block_<height-1>.json, or up to the first file loadBlock fails on
RECURSIVE LoadedBlocks(_, _)
LoadedBlocks(blocks, height) ==
    IF height = 0 \/ Len(blocks) = 0 \/ Head(blocks) = Undecodable THEN <<>>
    ELSE <<Head(blocks)>> \o LoadedBlocks(Tail(blocks), height - 1)

\* Database.LoadBlockchain, as StateManager.Start calls it: a block file that
\* fails to load ends it with an error, the blocks before it appended and the
\* pool and the accounts not read
LoadBlockchain ==
    /\ op = Idle
    /\ Len(Chain) + disk.height <= MaxChain
    /\ IF ~disk.exists
       THEN /\ UNCHANGED <<Chain, TransactionPool, Accounts, removed>>
            /\ op' = Outcome("LoadBlockchain", TRUE, <<>>, 0)
       ELSE LET loaded == LoadedBlocks(disk.blocks, disk.height)
            IN  IF Len(loaded) < disk.height
                THEN /\ Chain' = Chain \o loaded
                     /\ UNCHANGED <<TransactionPool, Accounts, removed>>
                     /\ op' = Outcome("LoadBlockchain", FALSE, <<>>, 0)
                ELSE /\ Chain' = Chain \o loaded
                     /\ TransactionPool' = disk.pool
                     /\ Accounts' = DecodeInto(Accounts, disk.accounts)
                     /\ removed' = removed \cup Left(TransactionPool, disk.pool)
                     /\ op' = Outcome("LoadBlockchain", TRUE, <<>>, 0)
    /\ UNCHANGED <<candidate, disk, origin, sent>>
    /\ UNCHANGED background

\* block_<k-1>.json is lost or damaged while the node is down: loadBlock will
\* fail on it
DamageBlockFile(k) ==
    /\ op = Idle
    /\ disk.exists
    /\ k \in 1..disk.height
    /\ disk.blocks[k] # Undecodable
    /\ disk' = [disk EXCEPT !.blocks[k] = Undecodable]
    /\ UNCHANGED <<Chain, TransactionPool, Accounts, candidate, op, removed,
                   origin, sent>>
    /\ UNCHANGED background

\* the node process starts again: NewBlockchain builds a new ledger, the data
\* directory is as the last process left it
NewBlockchain(now) ==
    /\ op = Idle
    /\ Chain' = <<GenesisBlock(now)>>
    /\ TransactionPool' = <<>>
    /\ Accounts' = GenesisAccounts
    /\ candidate' = <<>>
    /\ removed' = {}
    /\ op' = Outcome("NewBlockchain", TRUE, <<>>, 0)
    /\ UNCHANGED <<disk, origin, sent>>
    /\ UNCHANGED background

RECURSIVE recalculateAccountStates(_, _)
recalculateAccountStates(accounts, chain) ==
    IF Len(chain) = 0 THEN accounts
    ELSE recalculateAccountStates(
             Credit(processTransactions(accounts, Head(chain).Transactions),
                    Head(chain).Miner, Head(chain).BlockReward),
             Tail(chain))

EmptyAccounts == [a \in {} |-> 0]

\* StateManager.RollbackToHeight: truncate, recalculate, save
RollbackToHeight(height) ==
    /\ op = Idle
    /\ IF height < 0 \/ height >= Len(Chain)
       THEN /\ UNCHANGED <<Chain, Accounts, disk>>
            /\ op' = Outcome("RollbackToHeight", FALSE, <<height>>, 0)
       ELSE LET chain == SubSeq(Chain, 1, height + 1)
                accounts == recalculateAccountStates(EmptyAccounts, chain)
            IN  /\ Chain' = chain
                /\ Accounts' = accounts
                /\ disk' = [exists |-> TRUE, height |-> Len(chain),
                            blocks |-> chain, pool |-> TransactionPool,
                            accounts |-> accounts]
                /\ op' = Outcome("RollbackToHeight", TRUE, <<height>>, 0)
    /\ UNCHANGED <<TransactionPool, candidate, removed, origin, sent>>
    /\ UNCHANGED background

\* ------------------------------------------------------------------ inputs

\* a block as a peer or a caller builds it on the chain: kind says what it
\* gets wrong
PeerBlock(chain, now, txs, nonce, miner, kind) ==
    LET b == [NewBlock(IF kind = "index" THEN Len(chain) - 1 ELSE Len(chain),
                       txs,
                       IF kind = "prev" THEN JunkHash ELSE chain[Len(chain)].Hash,
                       Difficulty, now) EXCEPT
                 !.Nonce = nonce,
                 !.Miner = miner,
                 !.MerkleRoot = IF kind = "root" THEN JunkRoot ELSE @,
                 !.BlockReward = IF kind = "reward" THEN 2 * @ ELSE @]
    IN  [b EXCEPT !.Hash = IF kind = "hash" THEN JunkHash ELSE CalculateHash(b)]

Nonces == 0..(MaxNonce - 1)
PaidTx == Tx(<<"t1", "genesis_address", "A", 100, 1, "signed">>)
ForgedTx == Tx(<<"t1", "genesis_address", "A", 100, 1, "forged">>)
BlockTxLists == UNION {[1..n -> {PaidTx, ForgedTx}] : n \in 0..MaxBlockTx}
BlockKinds == {"plain", "index", "prev"}
BatchTxLists == {<<>>, <<PaidTx>>}

\* the ledger: admission, the consensus loop, blocks and transactions from
\* callers and peers
Next ==
    \/ \E tx \in TxUniverse : AddTransaction(tx)
    \/ \E peer \in Peers, tx \in TxUniverse : handleNewTx(peer, tx)
    \/ \E miner \in Miners, now \in Times : mineBlockCreate(miner, now)
    \/ mineBlockCommit
    \/ \E txs \in BlockTxLists, n \in Nonces, m \in Miners, k \in BlockKinds :
          StateManagerAddBlock(PeerBlock(Chain, 0, txs, n, m, k))
    \/ \E peer \in Peers, txs \in BlockTxLists, n \in Nonces, m \in Miners,
          k \in BlockKinds :
          handleNewBlock(peer, PeerBlock(Chain, 0, txs, n, m, k))
    \/ \E t1 \in BatchTxLists, t2 \in BatchTxLists, n1 \in Nonces, n2 \in Nonces :
          LET b1 == PeerBlock(Chain, 0, t1, n1, "M", "plain")
          IN  handleBlocks("p1", <<b1, PeerBlock(Append(Chain, b1), 0, t2, n2,
                                                "M", "plain")>>)
    \/ Resubmit
    \/ Return

Spec == Init /\ [][Next]_vars

\* the ledger with its storage layer: snapshots, restarts and rollback
NextStore ==
    \/ AddTransaction(PaidTx)
    \/ handleNewTx("p1", PaidTx)
    \/ \E miner \in Miners : mineBlockCreate(miner, 0)
    \/ mineBlockCommit
    \/ \E n \in Nonces : StateManagerAddBlock(PeerBlock(Chain, 0, <<>>, n, "M", "plain"))
    \/ \E n \in Nonces :
          handleNewBlock("p1", PeerBlock(Chain, 0, <<>>, n, "M", "plain"))
    \/ \E n \in Nonces :
          handleBlocks("p1", <<PeerBlock(Chain, 0, <<>>, n, "M", "plain")>>)
    \/ SaveBlockchain
    \/ LoadBlockchain
    \/ \E now \in Times : NewBlockchain(now)
    \/ \E height \in -1..MaxChain : RollbackToHeight(height)
    \/ Resubmit
    \/ Return

SpecStore == Init /\ [][NextStore]_vars

\* the ledger under inspection: GET /validity, and a chain one of whose
\* blocks had its PrevHash overwritten before IsChainValid runs
checkChainValidity ==
    /\ op = Idle
    /\ op' = Outcome("IsChainValid", IsChainValid(Chain, Difficulty), <<>>, 0)
    /\ UNCHANGED <<Chain, TransactionPool, Accounts, candidate, disk, removed,
                   origin, sent>>
    /\ UNCHANGED background

AlterPrevHash(i) ==
    /\ op = Idle
    /\ i \in 1..Len(Chain)
    /\ Chain' = [Chain EXCEPT ![i].PrevHash = JunkHash]
    /\ op' = Outcome("AlterPrevHash", IsChainValid(Chain', Difficulty), <<i>>, 0)
    /\ UNCHANGED <<TransactionPool, Accounts, candidate, disk, removed,
                   origin, sent>>
    /\ UNCHANGED background

NextInspect ==
    \/ AddTransaction(PaidTx)
    \/ \E miner \in Miners, now \in Times : mineBlockCreate(miner, now)
    \/ mineBlockCommit
    \/ \E txs \in BatchTxLists, n \in Nonces, k \in {"plain", "hash"} :
          handleNewBlock("p1", PeerBlock(Chain, 0, txs, n, "M", k))
    \/ checkChainValidity
    \/ \E i \in 1..MaxChain : AlterPrevHash(i)
    \/ Return

SpecInspect == Init /\ [][NextInspect]_vars

\* two nodes that started from the same genesis block: the other node admits
\* transactions and mines, this node handles the new_block messages that carry
\* the other node's blocks
RemoteAddTransaction(tx) ==
    /\ op = Idle
    /\ Len(remote.pool) < MaxPool
    /\ IsValid(tx)
    /\ Balance(remote.accounts, tx.From) >= tx.Amount + tx.Fee
    /\ remote' = [remote EXCEPT !.pool = Append(@, tx)]
    /\ UNCHANGED <<Chain, TransactionPool, Accounts, candidate, disk, op,
                   removed, origin, sent, node>>
    /\ UNCHANGED threads

\* the other node's mineBlock: CreateNewBlock, then AddBlock
RemoteMineBlock(miner, now) ==
    /\ op = Idle
    /\ Len(remote.chain) < MaxChain
    /\ Len(remote.pool) > 0
    /\ LET r == CreateNewBlock(remote.chain, remote.pool, miner, now)
           a == AddBlock(remote, r.block)
       IN  /\ ~r.err
           /\ remote' = [chain |-> a.chain, pool |-> a.pool,
                         accounts |-> a.accounts, wire |-> remote.wire]
    /\ UNCHANGED <<Chain, TransactionPool, Accounts, candidate, disk, op,
                   removed, origin, sent, node>>
    /\ UNCHANGED threads

\* a new_block message with the other node's k-th block is under way
RemoteSend(k) ==
    /\ op = Idle
    /\ k \in 2..Len(remote.chain)
    /\ remote.wire # <<k>>
    /\ remote' = [remote EXCEPT !.wire = <<k>>]
    /\ UNCHANGED <<Chain, TransactionPool, Accounts, candidate, disk, op,
                   removed, origin, sent, node>>
    /\ UNCHANGED threads

\* the message under way arrives at this node
ReceiveRemoteBlock(peer) ==
    /\ remote.wire # <<>>
    /\ handleNewBlock(peer,
           DecodeBlock(NewBlockMessage(remote.chain[remote.wire[1]]).Data))

NextTwoNodes ==
    \/ \E tx \in TxUniverse : RemoteAddTransaction(tx)
    \/ \E miner \in Miners, now \in Times : RemoteMineBlock(miner, now)
    \/ \E k \in 2..MaxChain : RemoteSend(k)
    \/ \E peer \in Peers : ReceiveRemoteBlock(peer)
    \/ Return

SpecTwoNodes == Init /\ [][NextTwoNodes]_vars

\* the other node is constructed at its own time, before either node has
\* done anything: NewBlockchain there
RemoteNewBlockchain(now) ==
    /\ op = Idle
    /\ Len(remote.chain) = 1 /\ remote.pool = <<>>
    /\ Len(Chain) = 1
    /\ remote' = [chain |-> <<GenesisBlock(now)>>, pool |-> <<>>,
                  accounts |-> GenesisAccounts, wire |-> <<>>]
    /\ UNCHANGED <<Chain, TransactionPool, Accounts, candidate, disk, op,
                   removed, origin, sent, node>>
    /\ UNCHANGED threads

\* two nodes, each constructed when its process starts
NextGenesis ==
    \/ \E now \in Times : RemoteNewBlockchain(now)
    \/ \E tx \in TxUniverse : RemoteAddTransaction(tx)
    \/ \E miner \in Miners, now \in Times : RemoteMineBlock(miner, now)
    \/ \E k \in 2..MaxChain : RemoteSend(k)
    \/ \E peer \in Peers : ReceiveRemoteBlock(peer)
    \/ Return

SpecGenesis == Init /\ [][NextGenesis]_vars

\* the node goes down and starts again over a data directory that may have
\* lost a block file
NextRestart ==
    \/ AddTransaction(PaidTx)
    \/ \E miner \in Miners : mineBlockCreate(miner, 0)
    \/ mineBlockCommit
    \/ SaveBlockchain
    \/ \E k \in 1..MaxChain : DamageBlockFile(k)
    \/ \E now \in Times : NewBlockchain(now)
    \/ LoadBlockchain
    \/ Return

SpecRestart == Init /\ [][NextRestart]_vars

\* bc.BlockReward, the reward NewBlockchain is configured with: taken to be
\* the reward NewBlock writes into a block
BlockReward == BaseBlockReward

\* the ledger fed with blocks whose block_reward field a peer has chosen
NextRewards ==
    \/ AddTransaction(PaidTx)
    \/ \E miner \in Miners, now \in Times : mineBlockCreate(miner, now)
    \/ mineBlockCommit
    \/ \E peer \in Peers, txs \in BatchTxLists, n \in Nonces,
          k \in {"plain", "reward"} :
          handleNewBlock(peer, PeerBlock(Chain, 0, txs, n, "M", k))
    \/ Return

SpecRewards == Init /\ [][NextRewards]_vars

\* CreateNewBlock on the pools admission can have built: any sequence of
\* transactions that AddTransaction admits on the genesis ledger
FundedTxs ==
    {tx \in TxUniverse :
        IsValid(tx) /\ Balance(GenesisAccounts, tx.From) >= tx.Amount + tx.Fee}

InitPools ==
    /\ \E now \in Times : Chain = <<GenesisBlock(now)>>
    /\ TransactionPool \in UNION {[1..n -> FundedTxs] : n \in 0..MaxDrawnPool}
    /\ Accounts = GenesisAccounts
    /\ candidate = <<>>
    /\ disk = NoSnapshot
    /\ op = Idle
    /\ removed = {}
    /\ origin = NoPeer
    /\ sent = {}
    /\ remote = [chain |-> Chain, pool |-> <<>>, accounts |-> GenesisAccounts,
                 wire |-> <<>>]
    /\ mutex = [writer |-> "none", readers |-> {}]
    /\ pc = [t \in Loops \cup Callers |-> IF t \in Loops THEN "none" ELSE "idle"]
    /\ isMining = FALSE
    /\ cmutex = "none"
    /\ node = StartedNode

NextCandidates ==
    \/ \E miner \in Miners, now \in Times : mineBlockCreate(miner, now)
    \/ mineBlockCommit
    \/ Return

SpecCandidates == InitPools /\ [][NextCandidates]_vars

\* ---------------------------------------------------------------- messages

\* pong from a peer: the prefix of best_hash is printed
handlePong(peer, data) ==
    /\ op = Idle
    /\ IF data = Undecodable
       THEN Dropped(peer, "handlePong")
       ELSE IF ~HasPrefix16(data.BestHash)
       THEN Panic(peer, "handlePong")
       ELSE /\ op' = Outcome("handlePong", TRUE, <<>>, 0)
            /\ origin' = peer
            /\ sent' = {}
            /\ UNCHANGED <<Chain, TransactionPool, Accounts, removed>>
    /\ UNCHANGED <<candidate, disk>>
    /\ UNCHANGED background

\* HandleMessage: rawData that is no NetworkMessage is reported and dropped,
\* otherwise the handler of message.Type runs; Data stands for what
\* json.Unmarshal makes of message.Data in that handler
HandleMessage(peer, message) ==
    IF message = Undecodable
    THEN /\ op = Idle
         /\ Dropped(peer, "HandleMessage")
         /\ UNCHANGED <<candidate, disk>>
         /\ UNCHANGED background
    ELSE IF message.Type = "pong" THEN handlePong(peer, message.Data)
    ELSE IF message.Type = "new_block" THEN handleNewBlock(peer, message.Data)
    ELSE IF message.Type = "new_tx" THEN handleNewTx(peer, message.Data)
    ELSE IF message.Type = "blocks" THEN handleBlocks(peer, message.Data)
    ELSE /\ op = Idle
         /\ Dropped(peer, "HandleMessage")
         /\ UNCHANGED <<candidate, disk>>
         /\ UNCHANGED background

\* what a peer can put into a message: a block whose hash text is short, a
\* block whose transactions array holds null, a transaction with a short hash
ShortHashBlock(b) == [b EXCEPT !.Hash = ShortHash]
NullTransactionBlock(b) == [b EXCEPT !.Transactions = <<Nil>>]
ShortHashTx(tx) == [tx EXCEPT !.Hash = "short"]

\* the peer handlers fed with well-formed and with malformed messages
NextMessages ==
    \/ \E peer \in Peers : HandleMessage(peer, Undecodable)
    \/ \E peer \in Peers : HandleMessage(peer, [Type |-> "unknown", Data |-> Nil])
    \/ \E peer \in Peers, hash \in {ShortHash, EmptyHash, JunkHash} :
          HandleMessage(peer, [Type |-> "pong",
                               Data |-> [Height |-> 1, BestHash |-> hash]])
    \/ \E peer \in Peers : HandleMessage(peer, [Type |-> "pong", Data |-> Undecodable])
    \/ \E peer \in Peers, data \in {Nil, Undecodable} :
          HandleMessage(peer, [Type |-> "new_block", Data |-> data])
    \/ \E peer \in Peers, txs \in BatchTxLists, n \in Nonces, k \in BlockKinds :
          HandleMessage(peer, [Type |-> "new_block",
                               Data |-> PeerBlock(Chain, 0, txs, n, "M", k)])
    \/ \E peer \in Peers, n \in Nonces :
          HandleMessage(peer, [Type |-> "new_block",
                               Data |-> ShortHashBlock(
                                           PeerBlock(Chain, 0, <<>>, n, "M", "plain"))])
    \/ \E peer \in Peers, n \in Nonces, k \in BlockKinds :
          HandleMessage(peer, [Type |-> "new_block",
                               Data |-> NullTransactionBlock(
                                           PeerBlock(Chain, 0, <<>>, n, "M", k))])
    \/ \E peer \in Peers, data \in {Nil, Undecodable, ShortHashTx(PaidTx)} :
          HandleMessage(peer, [Type |-> "new_tx", Data |-> data])
    \/ \E peer \in Peers : HandleMessage(peer, [Type |-> "blocks",
                                                Data |-> UndecodableBlocks])
    \/ \E peer \in Peers, n1 \in Nonces, n2 \in Nonces, k \in BlockKinds,
          first \in {"plain", "nil", "null transaction"} :
          LET b1 == PeerBlock(Chain, 0, <<>>, n1, "M", k)
              b2 == PeerBlock(Chain, 0, <<>>, n2, "M", "plain")
          IN  HandleMessage(peer,
                  [Type |-> "blocks",
                   Data |-> <<CASE first = "plain" -> b1
                                [] first = "nil" -> Nil
                                [] OTHER -> NullTransactionBlock(b1),
                              b2>>])
    \/ \E peer \in Peers, tx \in TxUniverse :
          HandleMessage(peer, [Type |-> "new_tx", Data |-> tx])
    \/ Return

SpecMessages == Init /\ [][NextMessages]_vars

\* ------------------------------------------------------------- goroutines

\* what a step of one goroutine leaves alone
sequential == <<disk, op, removed, origin, sent, remote, node>>

\* the goroutines running miningLoop
ActiveLoops == {l \in Loops : pc[l] \notin {"none", "returned"}}

\* sync.RWMutex: Lock waits for the writer and the readers to leave, RLock for
\* the writer
CanLock == mutex.writer = "none" /\ mutex.readers = {}
CanRLock == mutex.writer = "none"

\* StartMining without the test of c.isMining
StartMiningUnchecked(c) ==
    /\ pc[c] = "idle"
    /\ cmutex = "none"
    /\ \E l \in Loops :
          /\ pc[l] = "none"
          /\ pc' = [pc EXCEPT ![l] = "select", ![c] = "StartMining:ok"]
    /\ isMining' = TRUE
    /\ UNCHANGED <<Chain, TransactionPool, Accounts, candidate, mutex, cmutex>>
    /\ UNCHANGED sequential

\* Consensus.StartMining, all of it under c.mutex: an error if c.isMining,
\* otherwise the flag is set and a goroutine starts miningLoop
StartMining(c) ==
    /\ pc[c] = "idle"
    /\ cmutex = "none"
    /\ IF isMining
       THEN /\ pc' = [pc EXCEPT ![c] = "StartMining:err"]
            /\ UNCHANGED isMining
       ELSE /\ \E l \in Loops :
                  /\ pc[l] = "none"
                  /\ pc' = [pc EXCEPT ![l] = "select", ![c] = "StartMining:ok"]
            /\ isMining' = TRUE
    /\ UNCHANGED <<Chain, TransactionPool, Accounts, candidate, mutex, cmutex>>
    /\ UNCHANGED sequential

\* the caller of StartMining takes the result
StartMiningReturn(c) ==
    /\ pc[c] \in {"StartMining:ok", "StartMining:err"}
    /\ pc' = [pc EXCEPT ![c] = "idle"]
    /\ UNCHANGED <<Chain, TransactionPool, Accounts, candidate, mutex, isMining,
                   cmutex>>
    /\ UNCHANGED sequential

\* Consensus.StopMining takes c.mutex; if c.isMining it goes on to the send on
\* miningStop, otherwise it returns
StopMining(c) ==
    /\ pc[c] = "idle"
    /\ cmutex = "none"
    /\ IF isMining
       THEN /\ cmutex' = c
            /\ pc' = [pc EXCEPT ![c] = "StopMining:send"]
       ELSE UNCHANGED <<cmutex, pc>>
    /\ isMining' = isMining
    /\ UNCHANGED <<Chain, TransactionPool, Accounts, candidate, mutex>>
    /\ UNCHANGED sequential

\* a miningLoop that takes the stop value wherever it is, the attempt in flight
\* abandoned
StopReceivedAnywhere(c, l) ==
    /\ pc[c] = "StopMining:send"
    /\ l \in ActiveLoops
    /\ pc' = [pc EXCEPT ![c] = "StopMining:sent", ![l] = "returned"]
    /\ mutex' = [writer |-> IF mutex.writer = l THEN "none" ELSE mutex.writer,
                 readers |-> mutex.readers \ {l}]
    /\ UNCHANGED <<Chain, TransactionPool, Accounts, candidate, isMining, cmutex>>
    /\ UNCHANGED sequential

\* c.miningStop has no buffer: the send completes when a miningLoop takes the
\* value in its select, and that goroutine returns for good (a later
\* StartMining starts a new one)
StopReceived(c, l) ==
    /\ pc[c] = "StopMining:send"
    /\ pc[l] = "select"
    /\ pc' = [pc EXCEPT ![c] = "StopMining:sent", ![l] = "returned"]
    /\ UNCHANGED <<Chain, TransactionPool, Accounts, candidate, mutex, isMining,
                   cmutex>>
    /\ UNCHANGED sequential

\* StopMining returning with the flag still set
StopMiningReturnFlagKept(c) ==
    /\ pc[c] = "StopMining:sent"
    /\ cmutex' = "none"
    /\ pc' = [pc EXCEPT ![c] = "idle"]
    /\ UNCHANGED <<Chain, TransactionPool, Accounts, candidate, mutex, isMining>>
    /\ UNCHANGED sequential

\* StopMining after the send: the flag is cleared, c.mutex released
StopMiningReturn(c) ==
    /\ pc[c] = "StopMining:sent"
    /\ isMining' = FALSE
    /\ cmutex' = "none"
    /\ pc' = [pc EXCEPT ![c] = "idle"]
    /\ UNCHANGED <<Chain, TransactionPool, Accounts, candidate, mutex>>
    /\ UNCHANGED sequential

\* miningLoop: the ticker fires
LoopTick(l) ==
    /\ pc[l] = "select"
    /\ Len(Chain) < MaxChain
    /\ pc' = [pc EXCEPT ![l] = "len(TransactionPool)"]
    /\ UNCHANGED <<Chain, TransactionPool, Accounts, candidate, mutex, isMining,
                   cmutex>>
    /\ UNCHANGED sequential

\* miningLoop reads len(c.blockchain.TransactionPool) and calls mineBlock if
\* it is positive
LoopReadPool(l) ==
    /\ pc[l] = "len(TransactionPool)"
    /\ pc' = [pc EXCEPT ![l] = IF Len(TransactionPool) > 0
                               THEN "CreateNewBlock:RLock" ELSE "select"]
    /\ UNCHANGED <<Chain, TransactionPool, Accounts, candidate, mutex, isMining,
                   cmutex>>
    /\ UNCHANGED sequential

\* CreateNewBlock: bc.mutex.RLock()
LoopRLock(l) ==
    /\ pc[l] = "CreateNewBlock:RLock"
    /\ CanRLock
    /\ mutex' = [mutex EXCEPT !.readers = @ \cup {l}]
    /\ pc' = [pc EXCEPT ![l] = "CreateNewBlock:Mine"]
    /\ UNCHANGED <<Chain, TransactionPool, Accounts, candidate, isMining, cmutex>>
    /\ UNCHANGED sequential

\* CreateNewBlock: the block is built from the chain and the pool and
\* pow.Mine() searches the nonce
LoopMine(l, miner, now) ==
    /\ pc[l] = "CreateNewBlock:Mine"
    /\ LET r == CreateNewBlock(Chain, TransactionPool, miner, now)
       IN  candidate' = IF r.err THEN <<>> ELSE <<r.block>>
    /\ pc' = [pc EXCEPT ![l] = "CreateNewBlock:RUnlock"]
    /\ UNCHANGED <<Chain, TransactionPool, Accounts, mutex, isMining, cmutex>>
    /\ UNCHANGED sequential

\* CreateNewBlock returns: the deferred bc.mutex.RUnlock(); mineBlock goes on
\* to AddBlock unless Mine failed
LoopRUnlock(l) ==
    /\ pc[l] = "CreateNewBlock:RUnlock"
    /\ mutex' = [mutex EXCEPT !.readers = @ \ {l}]
    /\ pc' = [pc EXCEPT ![l] = IF candidate = <<>> THEN "select"
                               ELSE "AddBlock:Lock"]
    /\ UNCHANGED <<Chain, TransactionPool, Accounts, candidate, isMining, cmutex>>
    /\ UNCHANGED sequential

\* AddBlock: bc.mutex.Lock()
LoopLock(l) ==
    /\ pc[l] = "AddBlock:Lock"
    /\ CanLock
    /\ mutex' = [mutex EXCEPT !.writer = l]
    /\ pc' = [pc EXCEPT ![l] = "AddBlock"]
    /\ UNCHANGED <<Chain, TransactionPool, Accounts, candidate, isMining, cmutex>>
    /\ UNCHANGED sequential

\* AddBlock's body and its deferred Unlock; broadcastNewBlock writes nothing
LoopAddBlock(l) ==
    /\ pc[l] = "AddBlock"
    /\ LET r == AddBlock(Ledger, candidate[1])
       IN  /\ Chain' = r.chain
           /\ TransactionPool' = r.pool
           /\ Accounts' = r.accounts
    /\ candidate' = <<>>
    /\ mutex' = [mutex EXCEPT !.writer = "none"]
    /\ pc' = [pc EXCEPT ![l] = "select"]
    /\ UNCHANGED <<isMining, cmutex>>
    /\ UNCHANGED sequential

\* a caller (API request or peer handler goroutine) enters AddTransaction:
\* bc.mutex.Lock()
AddTransactionLock(c) ==
    /\ pc[c] = "idle"
    /\ CanLock
    /\ mutex' = [mutex EXCEPT !.writer = c]
    /\ pc' = [pc EXCEPT ![c] = "AddTransaction"]
    /\ UNCHANGED <<Chain, TransactionPool, Accounts, candidate, isMining, cmutex>>
    /\ UNCHANGED sequential

\* AddTransaction's body and its deferred Unlock
AddTransactionBody(c, tx) ==
    /\ pc[c] = "AddTransaction"
    /\ TransactionPool' =
          IF /\ IsValid(tx)
             /\ Balance(Accounts, tx.From) >= tx.Amount + tx.Fee
             /\ Len(TransactionPool) < MaxPool
          THEN Append(TransactionPool, tx) ELSE TransactionPool
    /\ mutex' = [mutex EXCEPT !.writer = "none"]
    /\ pc' = [pc EXCEPT ![c] = "idle"]
    /\ UNCHANGED <<Chain, Accounts, candidate, isMining, cmutex>>
    /\ UNCHANGED sequential

\* a peer's goroutine enters handlePing
handlePing(c) ==
    /\ pc[c] = "idle"
    /\ pc' = [pc EXCEPT ![c] = "handlePing:len(Chain)"]
    /\ UNCHANGED <<Chain, TransactionPool, Accounts, candidate, mutex, isMining,
                   cmutex>>
    /\ UNCHANGED sequential

\* handlePing reads len(mh.node.blockchain.Chain), then calls GetLastBlock
handlePingLen(c) ==
    /\ pc[c] = "handlePing:len(Chain)"
    /\ pc' = [pc EXCEPT ![c] = "GetLastBlock"]
    /\ UNCHANGED <<Chain, TransactionPool, Accounts, candidate, mutex, isMining,
                   cmutex>>
    /\ UNCHANGED sequential

\* GetLastBlock: RLock, the read of the tip, RUnlock
GetLastBlock(c) ==
    /\ pc[c] = "GetLastBlock"
    /\ CanRLock
    /\ pc' = [pc EXCEPT ![c] = "idle"]
    /\ UNCHANGED <<Chain, TransactionPool, Accounts, candidate, mutex, isMining,
                   cmutex>>
    /\ UNCHANGED sequential

\* sm.mutex, db.mutex and n.peerMutex are held by the goroutines that are
\* inside the sections they guard
SmSection ==
    {"RollbackToHeight", "sm:db.Lock", "sm:db:GetLastBlock", "sm:db:write",
     "sm:AddTransaction:bc.Lock", "sm:AddTransaction", "sm:AddBlock:bc.Lock",
     "sm:AddBlock"}
DbSection ==
    {"sm:db:GetLastBlock", "sm:db:write", "db:GetLastBlock", "db:write"}
smHolders == {t \in Callers : pc[t] \in SmSection}
dbHolders == {t \in Callers : pc[t] \in DbSection}
peerReaders == {t \in Callers : pc[t] = "BroadcastMessage:Write"}
peerWriters == {t \in Callers : pc[t] = "cleanupDeadPeers"}

\* a caller enters StateManager.RollbackToHeight: it takes sm.mutex, which the
\* mining loop and the peer handlers never take, and not bc.mutex
RollbackEnter(c) ==
    /\ pc[c] = "idle"
    /\ Len(Chain) > 1
    /\ smHolders = {}
    /\ pc' = [pc EXCEPT ![c] = "RollbackToHeight"]
    /\ UNCHANGED <<Chain, TransactionPool, Accounts, candidate, mutex, isMining,
                   cmutex>>
    /\ UNCHANGED sequential

\* RollbackToHeight truncates bc.Chain and recalculateAccountStates rebuilds
\* bc.Accounts
RollbackWrite(c, height) ==
    /\ pc[c] = "RollbackToHeight"
    /\ IF height < 0 \/ height >= Len(Chain)
       THEN UNCHANGED <<Chain, Accounts>>
       ELSE LET chain == SubSeq(Chain, 1, height + 1)
            IN  /\ Chain' = chain
                /\ Accounts' = recalculateAccountStates(EmptyAccounts, chain)
    /\ pc' = [pc EXCEPT ![c] = "idle"]
    /\ UNCHANGED <<TransactionPool, candidate, mutex, isMining, cmutex>>
    /\ UNCHANGED sequential

\* the positions at which a goroutine is reading, or writing, Chain,
\* TransactionPool or Accounts
ReadsLedger(t) ==
    pc[t] \in {"len(TransactionPool)", "CreateNewBlock:Mine", "handlePing:len(Chain)"}
WritesLedger(t) == pc[t] \in {"AddBlock", "AddTransaction", "RollbackToHeight"}

NextThreads ==
    \/ \E c \in Callers : StartMining(c)
    \/ \E c \in Callers : StartMiningReturn(c)
    \/ \E c \in Callers : StopMining(c)
    \/ \E c \in Callers, l \in Loops : StopReceived(c, l)
    \/ \E c \in Callers : StopMiningReturn(c)
    \/ \E l \in Loops : LoopTick(l)
    \/ \E l \in Loops : LoopReadPool(l)
    \/ \E l \in Loops : LoopRLock(l)
    \/ \E l \in Loops : LoopMine(l, "M", 0)
    \/ \E l \in Loops : LoopRUnlock(l)
    \/ \E l \in Loops : LoopLock(l)
    \/ \E l \in Loops : LoopAddBlock(l)
    \/ \E c \in Callers : AddTransactionLock(c)
    \/ \E c \in Callers, tx \in {PaidTx, ForgedTx} : AddTransactionBody(c, tx)
    \/ \E c \in Callers : handlePing(c)
    \/ \E c \in Callers : handlePingLen(c)
    \/ \E c \in Callers : GetLastBlock(c)
    \/ \E c \in Callers : RollbackEnter(c)
    \/ \E c \in Callers, height \in 0..(MaxChain - 1) : RollbackWrite(c, height)

SpecThreads == Init /\ [][NextThreads]_vars

\* the mining loop with the callers that start it, stop it and fill the pool
NextStop ==
    \/ \E c \in Callers : StartMining(c)
    \/ \E c \in Callers : StartMiningReturn(c)
    \/ \E c \in Callers : StopMining(c)
    \/ \E c \in Callers, l \in Loops : StopReceived(c, l)
    \/ \E c \in Callers : StopMiningReturn(c)
    \/ \E l \in Loops : LoopTick(l)
    \/ \E l \in Loops : LoopReadPool(l)
    \/ \E l \in Loops : LoopRLock(l)
    \/ \E l \in Loops : LoopMine(l, "M", 0)
    \/ \E l \in Loops : LoopRUnlock(l)
    \/ \E l \in Loops : LoopLock(l)
    \/ \E l \in Loops : LoopAddBlock(l)
    \/ \E c \in Callers : AddTransactionLock(c)
    \/ \E c \in Callers : AddTransactionBody(c, PaidTx)

\* scheduling: every goroutine that can take a step takes one in the end; a
\* goroutine waiting for bc.mutex gets it in the end, and a select that finds
\* miningStop ready again and again takes it in the end
FairStop ==
    /\ \A c \in Callers :
          /\ WF_vars(StopMiningReturn(c))
          /\ WF_vars(AddTransactionBody(c, PaidTx))
          /\ \A l \in Loops : SF_vars(StopReceived(c, l))
    /\ \A l \in Loops :
          /\ WF_vars(LoopReadPool(l))
          /\ SF_vars(LoopRLock(l))
          /\ WF_vars(LoopMine(l, "M", 0))
          /\ WF_vars(LoopRUnlock(l))
          /\ SF_vars(LoopLock(l))
          /\ WF_vars(LoopAddBlock(l))

SpecStop == Init /\ [][NextStop]_vars /\ FairStop

\* -------------------------------------------------------------------- locks

\* RollbackToHeight under sm.mutex: the chain truncated, the accounts
\* recalculated, then database.SaveBlockchain; an invalid height returns
SmRollbackWrite(c, height) ==
    /\ pc[c] = "RollbackToHeight"
    /\ IF height < 0 \/ height >= Len(Chain)
       THEN /\ UNCHANGED <<Chain, Accounts>>
            /\ pc' = [pc EXCEPT ![c] = "idle"]
       ELSE LET chain == SubSeq(Chain, 1, height + 1)
            IN  /\ Chain' = chain
                /\ Accounts' = recalculateAccountStates(EmptyAccounts, chain)
                /\ pc' = [pc EXCEPT ![c] = "sm:db.Lock"]
    /\ UNCHANGED <<TransactionPool, candidate, mutex, isMining, cmutex>>
    /\ UNCHANGED sequential

\* StateManager.SaveState: sm.mutex.Lock(), then database.SaveBlockchain
SaveState(c) ==
    /\ pc[c] = "idle"
    /\ smHolders = {}
    /\ pc' = [pc EXCEPT ![c] = "sm:db.Lock"]
    /\ UNCHANGED <<Chain, TransactionPool, Accounts, candidate, mutex, isMining,
                   cmutex>>
    /\ UNCHANGED sequential

\* Database.SaveBlockchain called under sm.mutex: db.mutex.Lock()
SmDbLock(c) ==
    /\ pc[c] = "sm:db.Lock"
    /\ dbHolders = {}
    /\ pc' = [pc EXCEPT ![c] = "sm:db:GetLastBlock"]
    /\ UNCHANGED <<Chain, TransactionPool, Accounts, candidate, mutex, isMining,
                   cmutex>>
    /\ UNCHANGED sequential

\* Database.SaveBlockchain called by a goroutine of its own, as the one
\* StateManager.AddBlock starts: db.mutex.Lock()
DbLock(c) ==
    /\ pc[c] = "idle"
    /\ dbHolders = {}
    /\ pc' = [pc EXCEPT ![c] = "db:GetLastBlock"]
    /\ UNCHANGED <<Chain, TransactionPool, Accounts, candidate, mutex, isMining,
                   cmutex>>
    /\ UNCHANGED sequential

\* SaveBlockchain builds the metadata: GetLastBlock takes and releases
\* bc.mutex for reading
SaveGetLastBlock(c) ==
    /\ pc[c] \in {"sm:db:GetLastBlock", "db:GetLastBlock"}
    /\ CanRLock
    /\ pc' = [pc EXCEPT ![c] = IF pc[c] = "sm:db:GetLastBlock"
                               THEN "sm:db:write" ELSE "db:write"]
    /\ UNCHANGED <<Chain, TransactionPool, Accounts, candidate, mutex, isMining,
                   cmutex>>
    /\ UNCHANGED sequential

\* SaveBlockchain writes the files and returns: db.mutex released, and
\* sm.mutex by the caller that held it
SaveWrite(c) ==
    /\ pc[c] \in {"sm:db:write", "db:write"}
    /\ disk' = [exists |-> TRUE, height |-> Len(Chain), blocks |-> Chain,
                pool |-> TransactionPool, accounts |-> Accounts]
    /\ pc' = [pc EXCEPT ![c] = "idle"]
    /\ UNCHANGED <<Chain, TransactionPool, Accounts, candidate, mutex, isMining,
                   cmutex>>
    /\ UNCHANGED <<op, removed, origin, sent, remote, node>>

\* StateManager.AddTransaction: sm.mutex.Lock()
SmAddTransactionEnter(c) ==
    /\ pc[c] = "idle"
    /\ smHolders = {}
    /\ pc' = [pc EXCEPT ![c] = "sm:AddTransaction:bc.Lock"]
    /\ UNCHANGED <<Chain, TransactionPool, Accounts, candidate, mutex, isMining,
                   cmutex>>
    /\ UNCHANGED sequential

\* blockchain.AddTransaction inside it: bc.mutex.Lock()
SmAddTransactionLock(c) ==
    /\ pc[c] = "sm:AddTransaction:bc.Lock"
    /\ CanLock
    /\ mutex' = [mutex EXCEPT !.writer = c]
    /\ pc' = [pc EXCEPT ![c] = "sm:AddTransaction"]
    /\ UNCHANGED <<Chain, TransactionPool, Accounts, candidate, isMining, cmutex>>
    /\ UNCHANGED sequential

\* AddTransaction's body and Unlock; an error returns, otherwise
\* saveImmediately decides whether SaveBlockchain follows
SmAddTransactionBody(c, tx, saveImmediately) ==
    /\ pc[c] = "sm:AddTransaction"
    /\ LET ok == /\ IsValid(tx)
                 /\ Balance(Accounts, tx.From) >= tx.Amount + tx.Fee
                 /\ Len(TransactionPool) < MaxPool
       IN  /\ TransactionPool' = IF ok THEN Append(TransactionPool, tx)
                                  ELSE TransactionPool
           /\ pc' = [pc EXCEPT ![c] = IF ok /\ saveImmediately
                                      THEN "sm:db.Lock" ELSE "idle"]
    /\ mutex' = [mutex EXCEPT !.writer = "none"]
    /\ UNCHANGED <<Chain, Accounts, candidate, isMining, cmutex>>
    /\ UNCHANGED sequential

\* StateManager.AddBlock: sm.mutex.Lock()
SmAddBlockEnter(c) ==
    /\ pc[c] = "idle"
    /\ smHolders = {}
    /\ pc' = [pc EXCEPT ![c] = "sm:AddBlock:bc.Lock"]
    /\ UNCHANGED <<Chain, TransactionPool, Accounts, candidate, mutex, isMining,
                   cmutex>>
    /\ UNCHANGED sequential

\* blockchain.AddBlock inside it: bc.mutex.Lock()
SmAddBlockLock(c) ==
    /\ pc[c] = "sm:AddBlock:bc.Lock"
    /\ CanLock
    /\ mutex' = [mutex EXCEPT !.writer = c]
    /\ pc' = [pc EXCEPT ![c] = "sm:AddBlock"]
    /\ UNCHANGED <<Chain, TransactionPool, Accounts, candidate, isMining, cmutex>>
    /\ UNCHANGED sequential

\* AddBlock's body and Unlock, SaveBlock of an accepted block (its file is
\* read back only if a snapshot counts it), sm.mutex released; the goroutine
\* started for SaveBlockchain is a caller of its own
SmAddBlockBody(c, b) ==
    /\ pc[c] = "sm:AddBlock"
    /\ LET r == AddBlock(Ledger, b)
       IN  /\ Chain' = r.chain
           /\ TransactionPool' = r.pool
           /\ Accounts' = r.accounts
           /\ disk' = IF ~r.err /\ b.Index < Len(disk.blocks)
                      THEN [disk EXCEPT !.blocks[b.Index + 1] = b]
                      ELSE disk
    /\ mutex' = [mutex EXCEPT !.writer = "none"]
    /\ pc' = [pc EXCEPT ![c] = "idle"]
    /\ UNCHANGED <<candidate, isMining, cmutex>>
    /\ UNCHANGED <<op, removed, origin, sent, remote, node>>

\* Consensus.HandleReceivedBlock on a block that ValidateBlock passes:
\* GetLastBlock takes and releases bc.mutex for reading
HandleReceivedBlockValidate(c) ==
    /\ pc[c] = "idle"
    /\ CanRLock
    /\ pc' = [pc EXCEPT ![c] = "HandleReceivedBlock:AddBlock.Lock"]
    /\ UNCHANGED <<Chain, TransactionPool, Accounts, candidate, mutex, isMining,
                   cmutex>>
    /\ UNCHANGED sequential

\* blockchain.AddBlock inside it: bc.mutex.Lock()
HandleReceivedBlockLock(c) ==
    /\ pc[c] = "HandleReceivedBlock:AddBlock.Lock"
    /\ CanLock
    /\ mutex' = [mutex EXCEPT !.writer = c]
    /\ pc' = [pc EXCEPT ![c] = "HandleReceivedBlock:AddBlock"]
    /\ UNCHANGED <<Chain, TransactionPool, Accounts, candidate, isMining, cmutex>>
    /\ UNCHANGED sequential

\* AddBlock's body going on to IsMining with bc.mutex still held
HandleReceivedBlockAddLocked(c, b) ==
    /\ pc[c] = "HandleReceivedBlock:AddBlock"
    /\ LET r == AddBlock(Ledger, b)
       IN  /\ Chain' = r.chain
           /\ TransactionPool' = r.pool
           /\ Accounts' = r.accounts
           /\ pc' = [pc EXCEPT ![c] = IF r.err THEN "idle"
                                      ELSE "HandleReceivedBlock:IsMining"]
           /\ mutex' = IF r.err THEN [mutex EXCEPT !.writer = "none"] ELSE mutex
    /\ UNCHANGED <<candidate, isMining, cmutex>>
    /\ UNCHANGED sequential

\* AddBlock's body and Unlock: the block is stale if the chain has grown
\* since ValidateBlock; an error returns, otherwise IsMining follows
HandleReceivedBlockAdd(c, b) ==
    /\ pc[c] = "HandleReceivedBlock:AddBlock"
    /\ LET r == AddBlock(Ledger, b)
       IN  /\ Chain' = r.chain
           /\ TransactionPool' = r.pool
           /\ Accounts' = r.accounts
           /\ pc' = [pc EXCEPT ![c] = IF r.err THEN "idle"
                                      ELSE "HandleReceivedBlock:IsMining"]
    /\ mutex' = [mutex EXCEPT !.writer = "none"]
    /\ UNCHANGED <<candidate, isMining, cmutex>>
    /\ UNCHANGED sequential

\* Consensus.IsMining: c.mutex taken for reading, the flag read, released;
\* a writer holding bc.mutex as well gives that up on return
HandleReceivedBlockIsMining(c) ==
    /\ pc[c] = "HandleReceivedBlock:IsMining"
    /\ cmutex = "none"
    /\ mutex' = IF mutex.writer = c THEN [mutex EXCEPT !.writer = "none"]
                ELSE mutex
    /\ pc' = [pc EXCEPT ![c] = "idle"]
    /\ UNCHANGED <<Chain, TransactionPool, Accounts, candidate, isMining, cmutex>>
    /\ UNCHANGED sequential

\* Node.BroadcastMessage: n.peerMutex.RLock()
BroadcastMessageRLock(c) ==
    /\ pc[c] = "idle"
    /\ peerWriters = {}
    /\ pc' = [pc EXCEPT ![c] = "BroadcastMessage:Write"]
    /\ UNCHANGED <<Chain, TransactionPool, Accounts, candidate, mutex, isMining,
                   cmutex>>
    /\ UNCHANGED sequential

\* the writes to the peers' connections, then RUnlock
BroadcastMessageWrite(c, message) ==
    /\ pc[c] = "BroadcastMessage:Write"
    /\ sent' = sent \cup BroadcastMessage(message)
    /\ pc' = [pc EXCEPT ![c] = "idle"]
    /\ UNCHANGED <<Chain, TransactionPool, Accounts, candidate, mutex, isMining,
                   cmutex>>
    /\ UNCHANGED <<disk, op, removed, origin, remote, node>>

\* peerMaintenance's tick: cleanupDeadPeers takes n.peerMutex for writing
CleanupLock(c) ==
    /\ pc[c] = "idle"
    /\ peerWriters = {} /\ peerReaders = {}
    /\ pc' = [pc EXCEPT ![c] = "cleanupDeadPeers"]
    /\ UNCHANGED <<Chain, TransactionPool, Accounts, candidate, mutex, isMining,
                   cmutex>>
    /\ UNCHANGED sequential

\* the peers not seen for PeerTimeout are closed and deleted, then Unlock
CleanupBody(c, dead) ==
    /\ pc[c] = "cleanupDeadPeers"
    /\ dead \subseteq node.peers
    /\ node' = [node EXCEPT !.closed = @ \cup {e[2] : e \in dead},
                            !.peers = @ \ dead]
    /\ pc' = [pc EXCEPT ![c] = "idle"]
    /\ UNCHANGED <<Chain, TransactionPool, Accounts, candidate, mutex, isMining,
                   cmutex>>
    /\ UNCHANGED <<disk, op, removed, origin, sent, remote>>

\* the consensus loop, its callers, the peer handlers, the state manager and
\* the database, lock by lock.  Callers offer a transaction while the pool is
\* empty and blocks for height 1; a rollback names the tip or the height
\* above it
NextLocks ==
    \/ \E c \in Callers : StartMining(c)
    \/ \E c \in Callers : StartMiningReturn(c)
    \/ \E c \in Callers : StopMining(c)
    \/ \E c \in Callers, l \in Loops : StopReceived(c, l)
    \/ \E c \in Callers : StopMiningReturn(c)
    \/ \E l \in Loops : LoopTick(l)
    \/ \E l \in Loops : LoopReadPool(l)
    \/ \E l \in Loops : LoopRLock(l)
    \/ \E l \in Loops : LoopMine(l, "M", 0)
    \/ \E l \in Loops : LoopRUnlock(l)
    \/ \E l \in Loops : LoopLock(l)
    \/ \E l \in Loops : LoopAddBlock(l)
    \/ \E c \in Callers : RollbackEnter(c)
    \/ \E c \in Callers, height \in {Len(Chain) - 1, Len(Chain)} :
          SmRollbackWrite(c, height)
    \/ \E c \in Callers : SaveState(c)
    \/ \E c \in Callers : SmDbLock(c)
    \/ \E c \in Callers : DbLock(c)
    \/ \E c \in Callers : SaveGetLastBlock(c)
    \/ \E c \in Callers : SaveWrite(c)
    \/ \E c \in Callers : TransactionPool = <<>> /\ SmAddTransactionEnter(c)
    \/ \E c \in Callers : SmAddTransactionLock(c)
    \/ \E c \in Callers, saveImmediately \in BOOLEAN :
          SmAddTransactionBody(c, PaidTx, saveImmediately)
    \/ \E c \in Callers : SmAddBlockEnter(c)
    \/ \E c \in Callers : SmAddBlockLock(c)
    \/ \E c \in Callers, k \in {"plain", "index"} :
          /\ k = "plain" => Len(Chain) < 2
          /\ SmAddBlockBody(c, PeerBlock(Chain, 0, <<>>, 1, "M", k))
    \/ \E c \in Callers : HandleReceivedBlockValidate(c)
    \/ \E c \in Callers : HandleReceivedBlockLock(c)
    \/ \E c \in Callers, k \in {"plain", "index"} :
          /\ k = "plain" => Len(Chain) < 2
          /\ HandleReceivedBlockAdd(c, PeerBlock(Chain, 0, <<>>, 1, "M", k))
    \/ \E c \in Callers : HandleReceivedBlockIsMining(c)
    \/ \E c \in Callers : BroadcastMessageRLock(c)
    \/ \E c \in Callers : BroadcastMessageWrite(c, NewTxMessage(PaidTx))
    \/ \E c \in Callers : CleanupLock(c)
    \/ \E c \in Callers : CleanupBody(c, node.peers)

SpecLocks == Init /\ [][NextLocks]_vars

\* ------------------------------------------------------- handler goroutines

\* the block of the new_block message under way, as a handler decodes it
WireBlock == DecodeBlock(NewBlockMessage(remote.chain[remote.wire[1]]).Data)

\* the other node sends its k-th block to this node over both connections;
\* the next one follows when the handlers of this one are through
FloodSend(k) ==
    /\ \A c \in Callers : pc[c] = "idle"
    /\ RemoteSend(k)

\* a peer's goroutine runs handleNewBlock on the message under way up to the
\* IsValidBlock test, which takes no lock
handleNewBlockTest(c) ==
    /\ pc[c] = "idle"
    /\ remote.wire # <<>>
    /\ pc' = [pc EXCEPT ![c] = IF IsValidBlock(Chain, WireBlock, Difficulty)
                               THEN "handleNewBlock:AddBlock" ELSE "idle"]
    /\ UNCHANGED <<Chain, TransactionPool, Accounts, candidate, mutex, isMining,
                   cmutex>>
    /\ UNCHANGED sequential

\* handleNewBlock calls AddBlock: Lock, the body, Unlock; the error is dropped
handleNewBlockAdd(c) ==
    /\ pc[c] = "handleNewBlock:AddBlock"
    /\ CanLock
    /\ LET r == AddBlock(Ledger, WireBlock)
       IN  /\ Chain' = r.chain
           /\ TransactionPool' = r.pool
           /\ Accounts' = r.accounts
    /\ pc' = [pc EXCEPT ![c] = "handleNewBlock:BroadcastMessage"]
    /\ UNCHANGED <<candidate, mutex, isMining, cmutex>>
    /\ UNCHANGED sequential

\* handleNewBlock calls BroadcastMessage; sent collects what the handler
\* goroutines have written to the peers
handleNewBlockBroadcast(c) ==
    /\ pc[c] = "handleNewBlock:BroadcastMessage"
    /\ sent' = sent \cup BroadcastMessage(NewBlockMessage(WireBlock))
    /\ pc' = [pc EXCEPT ![c] = "idle"]
    /\ UNCHANGED <<Chain, TransactionPool, Accounts, candidate, mutex, isMining,
                   cmutex>>
    /\ UNCHANGED <<disk, op, removed, origin, remote, node>>

\* flood propagation: the same new_block message reaches this node over
\* several connections, each served by its own goroutine
NextFlood ==
    \/ RemoteAddTransaction(PaidTx)
    \/ \E now \in Times : RemoteMineBlock("M", now)
    \/ \E k \in 2..MaxChain : FloodSend(k)
    \/ \E c \in Callers : handleNewBlockTest(c)
    \/ \E c \in Callers : handleNewBlockAdd(c)
    \/ \E c \in Callers : handleNewBlockBroadcast(c)

SpecFlood == Init /\ [][NextFlood]_vars

\* the mining loop next to the handlers of peer blocks: both nodes admit the
\* same transaction, the other node mines it first
NextDrain ==
    \/ RemoteAddTransaction(PaidTx)
    \/ RemoteMineBlock("M", 0)
    \/ \E k \in 2..MaxChain : FloodSend(k)
    \/ \E c \in Callers : handleNewBlockTest(c)
    \/ \E c \in Callers : handleNewBlockAdd(c)
    \/ \E c \in Callers : handleNewBlockBroadcast(c)
    \/ \E c \in Callers : AddTransactionLock(c)
    \/ \E c \in Callers : AddTransactionBody(c, PaidTx)
    \/ \E c \in Callers : StartMining(c)
    \/ \E c \in Callers : StartMiningReturn(c)
    \/ \E l \in Loops : LoopTick(l)
    \/ \E l \in Loops : LoopReadPool(l)
    \/ \E l \in Loops : LoopRLock(l)
    \/ \E l \in Loops : LoopMine(l, "M", 0)
    \/ \E l \in Loops : LoopRUnlock(l)
    \/ \E l \in Loops : LoopLock(l)
    \/ \E l \in Loops : LoopAddBlock(l)

SpecDrain == Init /\ [][NextDrain]_vars

\* ---------------------------------------------------------- peer-built blocks

\* a mined block whose transaction list a peer has replaced: header and hash
\* stay as mined
SubstituteTransactions(b, txs) == [b EXCEPT !.Transactions = txs]

LargeTx == Tx(<<"t2", "genesis_address", "A", 600000, 0, "signed">>)
SwapTxLists == UNION {[1..n -> {PaidTx, LargeTx}] : n \in 0..MaxBlockTx}

\* the ledger fed with blocks whose transactions were replaced after mining
NextMerkle ==
    \/ AddTransaction(PaidTx)
    \/ \E miner \in Miners, now \in Times : mineBlockCreate(miner, now)
    \/ mineBlockCommit
    \/ \E txs \in SwapTxLists, txs2 \in SwapTxLists, n \in Nonces :
          handleNewBlock("p1", SubstituteTransactions(
                                   PeerBlock(Chain, 0, txs, n, "M", "plain"),
                                   txs2))
    \/ Return

SpecMerkle == Init /\ [][NextMerkle]_vars

\* a signed transfer whose fee field is below zero
NegativeFeeTx == Tx(<<"t3", "genesis_address", "A", 100, -1, "signed">>)
FeeTxLists == {<<>>, <<PaidTx>>, <<NegativeFeeTx>>}

\* the ledger fed with transactions and blocks that carry any fee
NextFees ==
    \/ \E tx \in {PaidTx, NegativeFeeTx} : AddTransaction(tx)
    \/ \E peer \in Peers, tx \in {PaidTx, NegativeFeeTx} : handleNewTx(peer, tx)
    \/ \E miner \in Miners : mineBlockCreate(miner, 0)
    \/ mineBlockCommit
    \/ \E txs \in FeeTxLists, n \in Nonces :
          handleNewBlock("p1", PeerBlock(Chain, 0, txs, n, "M", "plain"))
    \/ Return

SpecFees == Init /\ [][NextFees]_vars

\* the ledger grown by AddBlock alone, from mined blocks and from blocks with
\* peer-chosen fields, and inspected by GET /validity
NextAccept ==
    \/ AddTransaction(PaidTx)
    \/ \E miner \in Miners : mineBlockCreate(miner, 0)
    \/ mineBlockCommit
    \/ \E txs \in BatchTxLists, n \in Nonces,
          k \in {"plain", "index", "prev", "hash"} :
          handleNewBlock("p1", PeerBlock(Chain, 0, txs, n, "M", k))
    \/ checkChainValidity
    \/ Return

SpecAccept == Init /\ [][NextAccept]_vars

\* the ledger grown by the consensus loop and rolled back by the state manager
NextRollback ==
    \/ AddTransaction(PaidTx)
    \/ \E miner \in Miners : mineBlockCreate(miner, 0)
    \/ mineBlockCommit
    \/ \E height \in -1..MaxChain : RollbackToHeight(height)
    \/ Return

SpecRollback == Init /\ [][NextRollback]_vars

\* ------------------------------------------------------ transaction flooding

\* this node and the other node are each other's peer p1.  A client's new_tx
\* message with PaidTx reaches this node
InjectNewTx ==
    /\ op = Idle
    /\ ~node.flood.injected
    /\ node' = [node EXCEPT !.flood.injected = TRUE, !.flood.here = 1]
    /\ UNCHANGED ledgerAndThreads

\* the receive loop hands a new_tx message under way to handleNewTx
FloodHandleNewTx ==
    /\ node.flood.here > 0
    /\ node.flood.sentHere < MaxRebroadcast
    /\ handleNewTx("p1", DecodeTransaction(NewTxMessage(PaidTx).Data))

\* handleNewTx returns: the message is consumed, and what BroadcastMessage
\* wrote to the other node's connection is under way to it
FloodHandlerReturn ==
    /\ op.name = "handleNewTx"
    /\ LET out == IF \E m \in sent : m.to = "p1" /\ m.message.Type = "new_tx"
                  THEN 1 ELSE 0
       IN  node' = [node EXCEPT !.flood.here = @ - 1,
                                !.flood.there = @ + out,
                                !.flood.sentHere = @ + out]
    /\ op' = Idle
    /\ origin' = NoPeer
    /\ sent' = {}
    /\ UNCHANGED <<Chain, TransactionPool, Accounts, candidate, disk, removed,
                   remote>>
    /\ UNCHANGED threads

\* the other node's handleNewTx on a message under way to it: IsValid,
\* AddTransaction with its error dropped, BroadcastMessage
RemoteHandleNewTx ==
    /\ op = Idle
    /\ node.flood.there > 0
    /\ node.flood.sentThere < MaxRebroadcast
    /\ Len(remote.pool) < MaxPool
    /\ LET tx == DecodeTransaction(NewTxMessage(PaidTx).Data)
           out == IF IsValid(tx) THEN 1 ELSE 0
       IN  /\ remote' = [remote EXCEPT !.pool =
                             IF /\ IsValid(tx)
                                /\ Balance(remote.accounts, tx.From)
                                       >= tx.Amount + tx.Fee
                             THEN Append(@, tx) ELSE @]
           /\ node' = [node EXCEPT !.flood.there = @ - 1,
                                    !.flood.here = @ + out,
                                    !.flood.sentThere = @ + out]
    /\ UNCHANGED <<Chain, TransactionPool, Accounts, candidate, disk, op,
                   removed, origin, sent>>
    /\ UNCHANGED threads

NextTxFlood ==
    \/ InjectNewTx
    \/ FloodHandleNewTx
    \/ FloodHandlerReturn
    \/ RemoteHandleNewTx
    \/ \E miner \in Miners, now \in Times : mineBlockCreate(miner, now)
    \/ mineBlockCommit
    \/ \E miner \in Miners, now \in Times : RemoteMineBlock(miner, now)
    \/ op.name # "handleNewTx" /\ Return

SpecTxFlood == Init /\ [][NextTxFlood]_vars

\* ----------------------------------------------------------- peer registry

\* acceptConnections hands an accepted connection to a handleConnection
\* goroutine, which builds the Peer
handleConnection(k, id) ==
    /\ node.listening
    /\ node.pc[k] = "none"
    /\ node' = [node EXCEPT !.pc[k] = "addPeer", !.id[k] = id]
    /\ UNCHANGED ledgerAndThreads

\* connectToNode dials a bootstrap node and builds the Peer; it never reads
\* isRunning
connectToNode(k, id) ==
    /\ node.pc[k] = "none"
    /\ node' = [node EXCEPT !.pc[k] = "addPeer", !.id[k] = id]
    /\ UNCHANGED ledgerAndThreads

\* n.addPeer(peer), under peerMutex; handlePeerCommunication follows
NodeAddPeer(k) ==
    /\ node.pc[k] = "addPeer"
    /\ node' = [node EXCEPT !.peers = addPeer(@, node.id[k], k),
                            !.pc[k] = "loop"]
    /\ UNCHANGED ledgerAndThreads

\* the receive loop ends: isRunning is false, the connection was closed, the
\* read timed out or failed
ReceiveLoopEnds(k, why) ==
    /\ node.pc[k] = "loop"
    /\ why = "stop" => ~node.isRunning
    /\ why = "closed" => k \in node.closed
    /\ node' = [node EXCEPT !.pc[k] = "defer"]
    /\ UNCHANGED ledgerAndThreads

\* handlePeerCommunication's deferred function: Connected = false,
\* Conn.Close(), removePeer(peer.ID); then the goroutine is over
ReceiveLoopDeferred(k) ==
    /\ node.pc[k] = "defer"
    /\ node' = [node EXCEPT !.closed = @ \cup {k},
                            !.peers = removePeer(@, node.id[k]),
                            !.pc[k] = "done"]
    /\ UNCHANGED ledgerAndThreads

\* peerMaintenance's tick: the peers not seen for PeerTimeout are closed and
\* deleted, under peerMutex
cleanupDeadPeers(dead) ==
    /\ dead # {}
    /\ dead \subseteq node.peers
    /\ node' = [node EXCEPT !.closed = @ \cup {e[2] : e \in dead},
                            !.peers = @ \ dead]
    /\ UNCHANGED ledgerAndThreads

\* Stop: isRunning = false, close(stopCh), listener.Close()
NodeStop ==
    /\ node.stop = "none"
    /\ node.isRunning
    /\ node' = [node EXCEPT !.isRunning = FALSE, !.listening = FALSE,
                            !.stop = "peers"]
    /\ UNCHANGED ledgerAndThreads

\* Stop, under peerMutex: every registered connection closed, n.peers replaced
\* by an empty map
NodeStopPeers ==
    /\ node.stop = "peers"
    /\ node' = [node EXCEPT !.closed = @ \cup {e[2] : e \in node.peers},
                            !.peers = {},
                            !.stop = "done"]
    /\ UNCHANGED ledgerAndThreads

NextPeers ==
    \/ \E k \in Conns, id \in PeerIDs : handleConnection(k, id)
    \/ \E k \in Conns, id \in PeerIDs : connectToNode(k, id)
    \/ \E k \in Conns : NodeAddPeer(k)
    \/ \E k \in Conns, why \in {"stop", "closed", "read"} :
           ReceiveLoopEnds(k, why)
    \/ \E k \in Conns : ReceiveLoopDeferred(k)
    \/ \E dead \in SUBSET node.peers : cleanupDeadPeers(dead)
    \/ NodeStop
    \/ NodeStopPeers

SpecPeers == Init /\ [][NextPeers]_vars

\* ------------------------------------------------------------------ claims

RECURSIVE SumOver(_, _)
SumOver(f, keys) ==
    IF keys = {} THEN 0
    ELSE LET k == CHOOSE x \in keys : TRUE
         IN  f[k] + SumOver(f, keys \ {k})

TotalBalance == SumOver(Accounts, DOMAIN Accounts)

\* the rewards of the blocks committed after genesis
RewardsCredited ==
    SumOver([i \in 2..Len(Chain) |-> Chain[i].BlockReward], 2..Len(Chain))

\* C1: the sum of all account balances equals the genesis allocation plus the
\* block rewards credited so far, whatever transactions the blocks carried.
C1_Conservation == TotalBalance = GenesisAllocation + RewardsCredited

\* C2: no account balance is negative in any state reached through
\* AddTransaction and AddBlock.
C2_NoNegativeBalance == \A a \in DOMAIN Accounts : Accounts[a] >= 0

\* the pool holds tx1 and tx2 as two entries
BothAdmitted(pool, tx1, tx2) ==
    \E p \in 1..Len(pool), q \in 1..Len(pool) :
        p # q /\ pool[p] = tx1 /\ pool[q] = tx2

\* C3: no committed block contains two admitted transactions of one sender
\* whose combined amount+fee exceeds the sender's committed balance.
C3_NoJointOverdraft ==
    [][(op'.name = "AddBlock" /\ op'.ok) =>
        LET txs == op'.arg[1].Transactions
        IN  ~ \E i \in 1..Len(txs), j \in 1..Len(txs) :
                /\ i < j
                /\ txs[i].From = txs[j].From
                /\ BothAdmitted(TransactionPool, txs[i], txs[j])
                /\ txs[i].Amount + txs[i].Fee + txs[j].Amount + txs[j].Fee
                     > Balance(Accounts, txs[i].From)]_vars

\* the signature is the one the declared public key gives for the hash
SignatureVerifies(tx) == tx.Signature = SignatureOf(tx.Hash, tx.PublicKey)

IntrinsicallyValid(tx) ==
    tx.Amount > 0 /\ tx.From # tx.To /\ SignatureVerifies(tx)

\* one of the four reasons for which AddBlock must reject b
Defective(b) ==
    \/ b.Index # Len(Chain)
    \/ b.PrevHash # Chain[Len(Chain)].Hash
    \/ LeadingZeros(b) < Difficulty
    \/ \E i \in 1..Len(b.Transactions) : ~IntrinsicallyValid(b.Transactions[i])

LedgerUnchanged ==
    Chain' = Chain /\ TransactionPool' = TransactionPool /\ Accounts' = Accounts

RECURSIVE Debited(_, _)
Debited(txs, a) ==
    IF Len(txs) = 0 THEN 0
    ELSE (IF Head(txs).From = a THEN Head(txs).Amount + Head(txs).Fee ELSE 0)
         + Debited(Tail(txs), a)

RECURSIVE Received(_, _)
Received(txs, a) ==
    IF Len(txs) = 0 THEN 0
    ELSE (IF Head(txs).To = a THEN Head(txs).Amount ELSE 0)
         + Received(Tail(txs), a)

\* the pool after is the pool before without the entries whose hash the block
\* names, the others in the order they had
PoolWithout(before, after, b) ==
    LET named == {b.Transactions[i].Hash : i \in 1..Len(b.Transactions)}
        kept == {i \in 1..Len(before) : before[i].Hash \notin named}
    IN  /\ Len(after) = Cardinality(kept)
        /\ \A k \in 1..Len(after) :
              after[k] = before[CHOOSE i \in kept :
                                   Cardinality({j \in kept : j <= i}) = k]

C6_Admission ==
    [][(op'.name = "AddTransaction") =>
        LET tx == op'.arg[1]
        IN  /\ op'.ok <=> (/\ IntrinsicallyValid(tx)
                           /\ Balance(Accounts, tx.From) >= tx.Amount + tx.Fee)
            /\ ~op'.ok => TransactionPool' = TransactionPool
            /\ op'.ok => TransactionPool' = Append(TransactionPool, tx)
            /\ Chain' = Chain
            /\ Accounts' = Accounts]_vars

\* a transaction that is intrinsically valid is rejected for the balance alone,
\* behind an entry admitted before
C6_Witness ==
    /\ op.name = "AddTransaction"
    /\ ~op.ok
    /\ IntrinsicallyValid(op.arg[1])
    /\ Len(TransactionPool) > 0

\* C7: chain[i].prevHash equals chain[i-1].hash for every i > 0, after
\* AddBlock, rollback and snapshot load alike.
C7_Linked ==
    \A i \in 2..Len(Chain) : Chain[i].PrevHash = Chain[i - 1].Hash

\* C8: every block of the chain has a header digest with the configured
\* difficulty's number of leading zero symbols.
C8_ProofOfWork ==
    \A i \in 1..Len(Chain) : LeadingZeros(Chain[i]) >= Difficulty

\* every block links to its parent, stores its own digest and meets the
\* difficulty
WellFormedChain ==
    /\ \A i \in 2..Len(Chain) : Chain[i].PrevHash = Chain[i - 1].Hash
    /\ \A i \in 1..Len(Chain) :
          /\ Chain[i].Hash = <<LeadingZeros(Chain[i]), Header(Chain[i])>>
          /\ LeadingZeros(Chain[i]) >= Difficulty

\* C9: IsChainValid returns true for every chain whose blocks link, store
\* their digest and meet the difficulty, and false for a chain in which the
\* prevHash of one block, the genesis block included, has been altered.
C9_ChainValidity ==
    /\ (op.name = "IsChainValid" /\ WellFormedChain) => op.ok
    /\ op.name = "AlterPrevHash" => ~op.ok

IsPrefix(s, t) == Len(s) <= Len(t) /\ SubSeq(t, 1, Len(s)) = s

\* C10: every operation on a ledger other than RollbackToHeight leaves the
\* chain it found as a prefix of the chain it leaves (a restarted process
\* builds a new ledger and is no operation on the old one).
C10_AppendOnly ==
    [][op'.name \notin {"RollbackToHeight", "NewBlockchain"}
         => IsPrefix(Chain, Chain')]_vars

\* a block is committed on top of two others
C10_Witness ==
    /\ op.name = "AddBlock"
    /\ op.ok
    /\ Len(Chain) = MaxChain

\* the hashes of the transactions of the blocks a step has committed
CommittedHashes ==
    UNION {{Chain'[k].Transactions[i].Hash : i \in 1..Len(Chain'[k].Transactions)} :
              k \in (Len(Chain) + 1)..Len(Chain')}

\* C11: an entry leaves the pool only in a step that commits a block naming
\* its hash, and a transaction that has left the pool is never in it again.
C11_PoolLifecycle ==
    [][/\ \A tx \in Left(TransactionPool, TransactionPool') :
             Len(Chain') > Len(Chain) /\ tx.Hash \in CommittedHashes
       /\ \A i \in 1..Len(TransactionPool') :
             TransactionPool'[i] \notin removed']_vars

\* C12: when this node holds the chain the other node held before it mined its
\* tip, and handles the new_block message carrying that tip, it ends with the
\* other node's height, tip hash and account balances.
C12_Convergence ==
    [][(/\ op = Idle
        /\ origin' \in Peers
        /\ Len(remote.chain) > 1
        /\ remote.wire = <<Len(remote.chain)>>
        /\ Chain = SubSeq(remote.chain, 1, Len(remote.chain) - 1))
         => (/\ Len(Chain') = Len(remote.chain)
             /\ Chain'[Len(Chain')].Hash = remote.chain[Len(remote.chain)].Hash
             /\ \A a \in Addresses :
                   Balance(Accounts', a) = Balance(remote.accounts, a))]_vars

\* this node has taken over the second block the other node mined
C12_Witness ==
    /\ op.name = "AddBlock"
    /\ op.ok
    /\ origin \in Peers
    /\ Len(Chain) = MaxChain
    /\ Chain = remote.chain
    /\ Accounts = remote.accounts

\* C13: every goroutine that reads or writes Chain, TransactionPool or
\* Accounts holds the blockchain's reader/writer lock while it does: the
\* exclusive lock for a write, the shared or the exclusive lock for a read.
C13_LockDiscipline ==
    \A t \in Loops \cup Callers :
        /\ WritesLedger(t) => mutex.writer = t
        /\ ReadsLedger(t) => (t \in mutex.readers \/ mutex.writer = t)

\* C14: while the proof-of-work search of a candidate block is in progress the
\* ledger lock is free, so that AddTransaction and AddBlock can take it.
C14_MiningOutsideLock ==
    \A l \in Loops : pc[l] = "CreateNewBlock:Mine" => CanLock

\* C15: at most one mining loop is running, whatever the order of StartMining
\* and StopMining calls, and a StartMining issued while a loop is running
\* returns the error and starts no loop.
C15_OneMiningLoop ==
    [][/\ Cardinality(ActiveLoops') <= 1
       /\ \A c \in Callers :
             (/\ pc[c] = "idle"
              /\ pc'[c] \in {"StartMining:ok", "StartMining:err"}
              /\ ActiveLoops # {})
                => (pc'[c] = "StartMining:err" /\ ActiveLoops' = ActiveLoops)]_vars

\* a second loop runs after the first one was stopped, and a StartMining issued
\* meanwhile was refused
C15_Witness ==
    /\ \E l \in Loops : pc[l] = "returned"
    /\ ActiveLoops # {}
    /\ \E c \in Callers : pc[c] = "StartMining:err"

\* C16: a peer handler that processes a message, malformed and rule-violating
\* ones included, returns normally, so that the receive loop goes on; and a
\* message it rejects leaves chain, pool and accounts as they were.
C16_MalformedNeverFatal ==
    [][(op = Idle /\ op' # Idle /\ origin' \in Peers)
          => (/\ op'.name # "panic"
              /\ ~op'.ok => LedgerUnchanged)]_vars

\* C17: a block the consensus loop has committed is sent to every connected
\* peer as a new_block message by the mineBlock call that committed it.
C17_LocalBlockBroadcast ==
    [][(/\ op = Idle /\ candidate # <<>> /\ candidate' = <<>>
        /\ op'.name = "AddBlock" /\ op'.ok)
          => \A p \in Peers :
                [to |-> p, message |-> NewBlockMessage(candidate[1])] \in sent']_vars

\* C18: handleNewBlock sends the message on exactly when AddBlock accepted the
\* block, and then to every connected peer except the one it came from.
C18_RebroadcastBlock ==
    [][(/\ op = Idle /\ origin' \in Peers
        /\ op'.name \in {"AddBlock", "handleNewBlock"})
          => sent' = IF op'.ok
                     THEN {[to |-> p, message |-> NewBlockMessage(op'.arg[1])] :
                              p \in Peers \ {origin'}}
                     ELSE {}]_vars

\* C19: handleNewTx sends a transaction on only if AddTransaction admitted it:
\* a transaction that did not enter the pool is not broadcast.
C19_RebroadcastAdmittedTx ==
    [][(/\ op = Idle /\ op'.name = "handleNewTx"
        /\ TransactionPool' = TransactionPool)
          => sent' = {}]_vars

\* C20: a snapshot load that fails part-way on a node just started leaves the
\* node with the genesis-only state it started with: one block in the chain,
\* the genesis allocation, no block of the snapshot.
C20_FailedLoadIsGenesisOnly ==
    [][(/\ op = Idle /\ op'.name = "LoadBlockchain" /\ ~op'.ok
        /\ Len(Chain) = 1 /\ TransactionPool = <<>> /\ Accounts = GenesisAccounts)
          => LedgerUnchanged]_vars

\* C21: a block that AddBlock commits raises its miner's balance by the
\* configured block reward, over what the block's transactions leave the miner
\* with, whether the block was built locally or came from a peer.
C21_RewardPerBlock ==
    [][(op = Idle /\ op'.name = "AddBlock" /\ op'.ok)
          => LET b == op'.arg[1]
             IN  Balance(Accounts', b.Miner)
                    = Balance(processTransactions(Accounts, b.Transactions), b.Miner)
                         + BlockReward]_vars

\* C22: a node sends a given block on at most once: a handler broadcasts the
\* new_block message under way only if no handler of this node has broadcast
\* that message before.
C22_RebroadcastOnce ==
    [][\A c \in Callers :
          (pc[c] = "handleNewBlock:BroadcastMessage" /\ pc'[c] = "idle")
             => \A p \in Peers :
                   [to |-> p, message |-> NewBlockMessage(WireBlock)] \notin sent]_vars

\* C23: a mining loop takes the stop signal only at its select, between
\* attempts: an attempt in flight goes on through CreateNewBlock to AddBlock,
\* which commits what AddBlock makes of the candidate; and when StopMining has
\* returned no loop is left running to commit a block.
C23_StopAtTickBoundary ==
    [][/\ \A l \in Loops :
             /\ (pc[l] # "returned" /\ pc'[l] = "returned") => pc[l] = "select"
             /\ (pc[l] = "CreateNewBlock:RUnlock" /\ candidate # <<>> /\ pc'[l] # pc[l])
                   => pc'[l] = "AddBlock:Lock"
             /\ (pc[l] = "AddBlock:Lock" /\ pc'[l] # pc[l]) => pc'[l] = "AddBlock"
             /\ (pc[l] = "AddBlock" /\ pc'[l] # pc[l])
                   => /\ pc'[l] = "select"
                      /\ Chain' = AddBlock(Ledger, candidate[1]).chain
       /\ \A c \in Callers :
             (pc[c] = "StopMining:sent" /\ pc'[c] = "idle")
                => (ActiveLoops' = {} /\ ~isMining')
       /\ ~isMining' => ActiveLoops' = {}]_vars

\* StopMining waits on its send while the loop commits the block of the
\* attempt that was in flight
C23_Witness ==
    \E c \in Callers, l \in Loops :
        /\ pc[c] = "StopMining:send"
        /\ pc[l] = "AddBlock"
        /\ ~AddBlock(Ledger, candidate[1]).err

\* C24: a StopMining call that found mining active and waits on its send
\* returns in the end, with the loop gone and isMining false; and StopMining
\* goes to the send only when isMining is set.
C24_StopReturns ==
    /\ \A c \in Callers :
          (pc[c] = "StopMining:send")
             ~> (pc[c] = "idle" /\ ~isMining /\ ActiveLoops = {})
    /\ [][\A c \in Callers :
             (pc[c] = "idle" /\ pc'[c] = "StopMining:send") => isMining]_vars

\* StopMining has returned after a loop took its signal
C24_Witness ==
    /\ \E l \in Loops : pc[l] = "returned"
    /\ \A c \in Callers : pc[c] = "idle"
    /\ ~isMining
    /\ Len(Chain) > 1

C26_LoopBlocksNotEmpty ==
    [][\A l \in Loops :
          (pc[l] = "AddBlock" /\ pc'[l] = "select" /\ Len(Chain') > Len(Chain))
             => Len(Chain'[Len(Chain')].Transactions) > 0]_vars

\* C27: the block CreateNewBlock returns has the chain's height as index, the
\* tip's hash as PrevHash and the first min(limit, pool size) entries of the
\* pool, in pool order, as transactions; chain, pool and accounts stay as they
\* were.
C27_CandidateContents ==
    [][(op = Idle /\ op'.name = "CreateNewBlock" /\ op'.ok)
          => LET b == candidate'[1]
                 n == IF Len(TransactionPool) < MaxTransactions
                      THEN Len(TransactionPool) ELSE MaxTransactions
             IN  /\ b.Index = Len(Chain)
                 /\ b.PrevHash = Chain[Len(Chain)].Hash
                 /\ b.Transactions = [i \in 1..n |-> TransactionPool[i]]
                 /\ LedgerUnchanged]_vars

\* a candidate built from a pool that holds more than the limit, its last
\* entry differing from those taken
C27_Witness ==
    /\ op.name = "CreateNewBlock" /\ op.ok
    /\ Len(TransactionPool) > MaxTransactions
    /\ Len(candidate[1].Transactions) = MaxTransactions
    /\ \A i \in 1..MaxTransactions :
          TransactionPool[Len(TransactionPool)] # candidate[1].Transactions[i]

\* the block CreateNewBlock hands to Mine in the current state
Unmined(miner, now) ==
    [NewBlock(Len(Chain), getTransactionsForBlock(TransactionPool),
              Chain[Len(Chain)].Hash, Difficulty, now) EXCEPT !.Miner = miner]

\* the nonces below the ceiling whose digest meets the difficulty
Qualifying(b, difficulty) ==
    {n \in 0..(MaxNonce - 1) :
        CalculateHash([b EXCEPT !.Nonce = n])[1] >= difficulty}

\* C28: Mine returns the smallest nonce below the ceiling whose header digest
\* has the difficulty's number of leading zero symbols, with that digest, and
\* fails exactly when no nonce below the ceiling has one.
C28_MineSmallestNonce ==
    \A miner \in Miners, now \in Times, difficulty \in 0..2 :
        LET b == Unmined(miner, now)
            r == Mine(b, difficulty)
            Q == Qualifying(b, difficulty)
        IN  /\ r.ok <=> Q # {}
            /\ r.ok => /\ r.nonce \in Q
                       /\ \A n \in Q : r.nonce <= n
                       /\ r.hash = CalculateHash([b EXCEPT !.Nonce = r.nonce])

\* CreateNewBlock has returned a block whose nonce is not the first tried, on a
\* ledger where the search fails at a higher difficulty
C28_Witness ==
    /\ op.name = "CreateNewBlock" /\ op.ok
    /\ candidate[1].Nonce > 0
    /\ \E now \in Times : ~Mine(Unmined("M", now), 2).ok
    /\ \E now \in Times : Mine(Unmined("M", now), 1).nonce = 0

\* C29: a block that carries the nonce and the hash Mine returned passes
\* Validate at the same difficulty; and AddBlock accepts the block
\* CreateNewBlock returned when the chain still has the height and the tip the
\* block was built on.
C29_MineValidateAgree ==
    /\ [](\A miner \in Miners, now \in Times, difficulty \in 0..2 :
             LET b == Unmined(miner, now)
                 r == Mine(b, difficulty)
             IN  r.ok => Validate([b EXCEPT !.Nonce = r.nonce, !.Hash = r.hash],
                                  difficulty))
    /\ [][(/\ op = Idle /\ candidate # <<>> /\ candidate' = <<>>
           /\ candidate[1].Index = Len(Chain)
           /\ candidate[1].PrevHash = Chain[Len(Chain)].Hash)
             => (/\ op'.name = "AddBlock" /\ op'.ok
                 /\ Chain' = Append(Chain, candidate[1]))]_vars

\* AddBlock has accepted a mined block whose nonce is not the first tried
C29_Witness ==
    /\ op.name = "AddBlock" /\ op.ok /\ origin = NoPeer
    /\ op.arg[1].Nonce > 0
    /\ Len(op.arg[1].Transactions) > 0
    /\ Chain[Len(Chain)] = op.arg[1]

\* a block that names no null transaction
WellFormedBlock(b) ==
    b # Nil /\ \A i \in 1..Len(b.Transactions) : b.Transactions[i] # Nil

\* what the claim has a blocks message do to the ledger: each block in turn is
\* appended if it passes AddBlock's validation and skipped if it does not
RECURSIVE BatchResult(_, _)
BatchResult(bc, blocks) ==
    IF Len(blocks) = 0 THEN bc
    ELSE LET b == Head(blocks)
             r == IF WellFormedBlock(b) THEN AddBlock(bc, b)
                  ELSE [chain |-> bc.chain, pool |-> bc.pool,
                        accounts |-> bc.accounts, err |-> TRUE]
         IN  BatchResult([chain |-> r.chain, pool |-> r.pool,
                          accounts |-> r.accounts], Tail(blocks))

\* C30: handleBlocks goes through all blocks of the message in order: each
\* block that passes validation against the chain as it is then is appended,
\* each block that fails is skipped and the blocks after it are still
\* processed, and chain, pool and accounts change by the accepted blocks only.
C30_BatchIndependent ==
    [][(/\ op = Idle
        /\ \/ op'.name = "handleBlocks" /\ op'.ok
           \/ op'.name = "panic" /\ op'.arg[1] = "handleBlocks")
          => (/\ op'.name = "handleBlocks"
              /\ LET r == BatchResult(Ledger, op'.arg[1])
                 IN  /\ Chain' = r.chain
                     /\ TransactionPool' = r.pool
                     /\ Accounts' = r.accounts)]_vars

\* C31: a peer whose receive loop has terminated has its connection closed
\* and no entry in the registry, whatever accept, connect, maintenance and
\* Stop do meanwhile
C31_NoEntryForTerminatedLoop ==
    \A k \in Conns :
        node.pc[k] = "done" =>
            /\ k \in node.closed
            /\ \A e \in node.peers : e[2] # k

\* a loop has terminated, and a peer registered after Stop cleared the map
\* is still in the registry
C31_Witness ==
    /\ node.stop = "done"
    /\ node.peers # {}
    /\ \E k \in Conns : node.pc[k] = "done"

\* C32: two ledgers constructed with the same difficulty, at whatever times,
\* have the same genesis block (index 0, prevHash "0", same hash) and the same
\* pre-seeded balance
C32_GenesisFixed ==
    /\ Chain[1].Index = 0 /\ remote.chain[1].Index = 0
    /\ Chain[1].PrevHash = ZeroHash /\ remote.chain[1].PrevHash = ZeroHash
    /\ Chain[1].Hash = remote.chain[1].Hash
    /\ Balance(GenesisAccounts, "genesis_address") = GenesisAllocation

\* C33: every committed block's merkleRoot is the root of the transactions
\* the block holds, in their order
C33_MerkleRootCommits ==
    \A i \in 1..Len(Chain) :
        Chain[i].MerkleRoot = CalculateMerkleRoot(Chain[i].Transactions)

\* C34: every transaction in the pool or in a committed block has
\* amount > 0, fee >= 0 and from # to
WithinDataModel(tx) == tx.Amount > 0 /\ tx.Fee >= 0 /\ tx.From # tx.To

C34_DataModelConstraints ==
    /\ \A i \in 1..Len(TransactionPool) : WithinDataModel(TransactionPool[i])
    /\ \A i \in 1..Len(Chain) :
           \A j \in 1..Len(Chain[i].Transactions) :
               WithinDataModel(Chain[i].Transactions[j])

\* C35: every chain that AddBlock calls build from NewBlockchain's passes
\* IsChainValid
C35_ReachableChainValid == IsChainValid(Chain, Difficulty)

\* C36: a transaction hash occurs at most once in the pool and in at most
\* one committed block
C36_HashOccursOnce ==
    /\ \A i, j \in 1..Len(TransactionPool) :
           TransactionPool[i].Hash = TransactionPool[j].Hash => i = j
    /\ \A i, j \in 1..Len(Chain) :
           (\E x \in 1..Len(Chain[i].Transactions),
               y \in 1..Len(Chain[j].Transactions) :
               Chain[i].Transactions[x].Hash = Chain[j].Transactions[y].Hash)
           => i = j

\* C37: after one new_tx announcement is injected, each node sends that
\* transaction on at most once
C37_TxRebroadcastOnce ==
    node.flood.sentHere <= 1 /\ node.flood.sentThere <= 1

\* the balances AddBlock left when the block at height h was committed on
\* the ledger NewBlockchain built
BalancesAtHeight(chain, h) ==
    recalculateAccountStates(GenesisAccounts, SubSeq(chain, 2, h + 1))

\* C38: RollbackToHeight(h) with 0 <= h < chain length truncates the chain to
\* blocks 0..h and leaves every balance as it was right after block h was
\* committed; with h out of range it fails and changes nothing
C38_RollbackRestoresBalances ==
    [][(op = Idle /\ op'.name = "RollbackToHeight") =>
          LET h == op'.arg[1]
          IN  IF 0 <= h /\ h < Len(Chain)
              THEN /\ op'.ok
                   /\ Chain' = SubSeq(Chain, 1, h + 1)
                   /\ \A a \in DOMAIN Accounts' \cup DOMAIN Accounts :
                          Balance(Accounts', a) =
                              Balance(BalancesAtHeight(Chain, h), a)
              ELSE /\ ~op'.ok
                   /\ UNCHANGED <<Chain, TransactionPool, Accounts>>]_vars

\* C39: LoadBlockchain into a freshly constructed ledger reproduces the state
\* SaveBlockchain wrote: the same chain with chain[i].index = i, the same pool
\* and the same balances
C39_SnapshotRoundTrip ==
    [][(/\ op = Idle /\ op'.name = "LoadBlockchain"
        /\ Len(Chain) = 1 /\ TransactionPool = <<>> /\ Accounts = GenesisAccounts
        /\ disk.exists
        /\ Len(LoadedBlocks(disk.blocks, disk.height)) = disk.height)
       => /\ Chain' = disk.blocks
          /\ \A i \in 1..Len(Chain') : Chain'[i].Index = i - 1
          /\ TransactionPool' = disk.pool
          /\ \A a \in DOMAIN Accounts' \cup DOMAIN disk.accounts :
                 Balance(Accounts', a) = Balance(disk.accounts, a)]_vars

\* the goroutines a goroutine is waiting for: the holders of the lock it has
\* asked for (a reader of bc.mutex also waits behind the writers that have
\* asked before it), and for the sender on miningStop the loops that are not
\* at their select
Goroutines == Loops \cup Callers

WantsLock(t) ==
    pc[t] \in {"AddBlock:Lock", "sm:AddTransaction:bc.Lock",
               "sm:AddBlock:bc.Lock", "HandleReceivedBlock:AddBlock.Lock"}

WantsRLock(t) ==
    pc[t] \in {"CreateNewBlock:RLock", "sm:db:GetLastBlock", "db:GetLastBlock"}

WaitsFor(t) ==
    IF WantsLock(t)
    THEN (({mutex.writer} \cap Goroutines) \cup mutex.readers) \ {t}
    ELSE IF WantsRLock(t)
    THEN (({mutex.writer} \cap Goroutines)
          \cup {u \in Goroutines : WantsLock(u) /\ ~CanLock}) \ {t}
    ELSE IF pc[t] = "sm:db.Lock" THEN dbHolders
    ELSE IF pc[t] = "HandleReceivedBlock:IsMining"
    THEN {cmutex} \cap Goroutines
    ELSE IF pc[t] = "StopMining:send"
    THEN IF \E l \in Loops : pc[l] = "select" THEN {}
         ELSE ActiveLoops
    ELSE {}

WaitsForAll(S) == S \cup UNION {WaitsFor(u) : u \in S}

\* the goroutines t waits for, directly or through others
WaitsForChain(t) == WaitsForAll(WaitsForAll(WaitsForAll(WaitsFor(t))))

\* C40: no goroutine waits, through the locks and the miningStop channel, for
\* itself, and a sender on miningStop has a loop that will receive
C40_NoWaitCycle ==
    /\ \A t \in Goroutines : t \notin WaitsForChain(t)
    /\ \A c \in Callers : pc[c] = "StopMining:send" => ActiveLoops # {}

\* a chain of waits that does not close: a caller of HandleReceivedBlock waits
\* for c.mutex, which StopMining holds while it waits for the loop, which
\* waits for bc.mutex
C40_Witness ==
    \E c \in Callers, d \in Callers, l \in Loops :
        /\ pc[c] = "HandleReceivedBlock:IsMining"
        /\ pc[d] = "StopMining:send"
        /\ pc[l] = "AddBlock:Lock"
        /\ d \in WaitsFor(c)
        /\ l \in WaitsFor(d)

====
